---- MODULE Spec2Model ----
(***************************************************************************)
(* Verification model of the ranking engine (bobfang1992/ranking-dsl):     *)
(* typed columns and the copy-on-write BatchBuilder, the plan compiler,    *)
(* the executor with its built-in operators, and the guest-module          *)
(* BatchContext.                                                           *)
(*                                                                         *)
(* Encoding.  A column handle (std::shared_ptr<TypedColumn>) is an index   *)
(* into `heap`; two handles are the same object iff the indices are equal. *)
(* A Value is a record [t, v]: t is the alternative held by the variant    *)
(* and v the payload as a sequence of integers (one element for scalars    *)
(* and for string/bytes codes, D elements for a float vector).  A column   *)
(* keeps its payloads flat in `data`, as F32VecColumn does.  Row indices   *)
(* are 0-based as in the source.                                           *)
(***************************************************************************)
EXTENDS Integers, Sequences, FiniteSets, TLC

VARIABLES
  heap,               \* all column objects ever allocated, indexed by handle
  \* ---- BatchBuilder (object/batch_builder.h) ----
  source_,            \* the source batch, or NoBatch (source_ == nullptr)
  row_count_,         \* BatchBuilder::row_count_
  modified_columns_,  \* BatchBuilder::modified_columns_ : key -> handle
  modified_keys_,     \* BatchBuilder::modified_keys_
  built,              \* the batch returned by Build(), NoBatch before
  bb_pc,              \* "idle" | "open" | "built"
  bb_calls,           \* number of Set/AddColumn calls made so far
  bb_last,            \* outcome of the last builder call
  h_called,           \* history: keys named by any Set/AddColumn call
  h_added,            \* history: keys installed by AddColumn
  h_written,          \* history: key -> (row -> last Value a Set wrote)
  h_src_heap,         \* history: heap as it was when the builder was created
  \* ---- PlanCompiler (plan/compiler.h) ----
  plan,               \* the Plan handed to Compile
  budget_,            \* PlanCompiler::budget_ (std::optional<ComplexityBudget>)
  complexity_check_enabled_,
  compiled,           \* the caller's CompiledPlan (`out`)
  error,              \* the caller's error string (`error_out`)
  c_pc,               \* "idle" | "ready" | "ok" | "failed"
  h_phases,           \* history: the validation phases Compile entered, in order
  \* ---- Executor::Execute (executor/executor.cpp) ----
  outputs,            \* node id -> the output batch stored for it
  e_idx,              \* position of the loop in topo_order (1-based)
  e_pc,               \* "idle" | "running" | "returned" | "threw"
  e_result,           \* the batch Execute returned, NoBatch before
  e_exception,        \* what() of the exception that left Execute, "" if none
  h_runs,             \* history: each runner->Run call: node, input handed,
                      \* and the ids whose outputs were stored when it started
  \* ---- NjsRunner::Run and its BatchContext (nodes/js) ----
  g_input,            \* the input batch of the invocation
  allowed_writes_,    \* BatchContext::allowed_writes_ (meta.writes)
  g_registry,         \* whether ctx.registry is set
  njs_budget,         \* the NjsBudget of the invocation (BatchContext::budget_)
  allocated_columns_, \* BatchContext::allocated_columns_
  g_module,           \* params["module"], "" when the parameter is missing
  g_pc,               \* "idle" | "ready" | "running" | "returned" | "threw"
  g_result,           \* the batch Run returned, NoBatch before
  g_error,            \* the error Run threw, "" if none
  g_calls,            \* number of writer calls made so far
  g_last,             \* the last writer call: arguments, outcome, state before
  h_accepted,         \* history: sum of the accepted allocations
  h_denied,           \* history: keys a writer call refused as undeclared
  policy_,            \* NjsRunner::policy_
  g_meta,             \* name, version and capabilities.io.csv_read of the module
  js_ctx,             \* NjsRunner::Impl::js_ctx
  g_invocations,      \* number of Run calls begun on this runner
  io_last,            \* the last readCsv call: resource, outcome, budget before
  h_opened,           \* history: the paths readCsv tried to open, in order
  \* ---- ParsePlan (plan/plan.cpp) ----
  plan_json,          \* the JSON document handed to ParsePlan
  p_pc,               \* "idle" | "json" | "parsed" | "failed"
  \* ---- Tracer (logging/trace.cpp) ----
  enabled_,           \* Tracer::enabled_
  trace_log,          \* the records written to std::cout, in order
  \* ---- MergeNode called on its own (nodes/core/merge.cpp) ----
  m_input,            \* the batch handed to MergeNode::Run
  m_params,           \* its params
  m_pc,               \* "idle" | "ready" | "returned" | "threw"
  m_result,           \* what Run returned or threw
  \* ---- KeyRegistry loaded from JSON (keys/registry.cpp) ----
  registry_json,      \* the document handed to LoadFromJson
  key_registry,       \* keys_, by_id_, by_name_
  k_pc,               \* "idle" | "json" | "loaded" | "failed"
  k_error,            \* *error_out
  \* ---- ScoreFormulaNode called on its own (nodes/core/score_formula.cpp) ----
  sf_input,           \* the batch handed to ScoreFormulaNode::Run
  sf_params,          \* its params
  sf_pc,              \* "idle" | "ready" | "returned" | "threw"
  sf_result           \* what Run returned or threw

bbVars == <<source_, row_count_, modified_columns_, modified_keys_, built,
            bb_pc, bb_calls, bb_last, h_called, h_added, h_written, h_src_heap>>

cVars == <<plan, budget_, complexity_check_enabled_, compiled, error, c_pc,
           h_phases>>

eVars == <<outputs, e_idx, e_pc, e_result, e_exception, h_runs>>

gVars == <<g_input, allowed_writes_, g_registry, njs_budget, allocated_columns_,
           g_module, g_pc, g_result, g_error, g_calls, g_last, h_accepted,
           h_denied, policy_, g_meta, js_ctx, g_invocations, io_last, h_opened>>
ioVars == <<policy_, g_meta, js_ctx, g_invocations, io_last, h_opened>>

pVars == <<plan_json, p_pc>>

tVars == <<enabled_, trace_log>>

mVars == <<m_input, m_params, m_pc, m_result>>

kVars == <<registry_json, key_registry, k_pc, k_error>>

sfVars == <<sf_input, sf_params, sf_pc, sf_result>>

vars == <<heap, bbVars, cVars, eVars, gVars, pVars, tVars, mVars, kVars, sfVars>>

\* what each subsystem leaves alone
nonBBVars == <<cVars, eVars, gVars, pVars, tVars, mVars, kVars, sfVars>>
nonCVars == <<heap, bbVars, eVars, gVars, pVars, tVars, mVars, kVars, sfVars>>
nonGVars == <<bbVars, cVars, eVars, pVars, tVars, mVars, kVars, sfVars>>

-----------------------------------------------------------------------------
(* Bounds *)

MaxRows == 2
MaxCalls == 2
MaxNodes == 3

-----------------------------------------------------------------------------
(* Values (object/value.h) *)

NullValue == [t |-> "NullValue", v |-> <<>>]
IsNull(value) == value.t = "NullValue"

EmptyMap == [k \in {} |-> 0]
NoBatch == [row_count |-> 0, columns |-> EmptyMap, none |-> TRUE]
MkBatch(n, cols) == [row_count |-> n, columns |-> cols, none |-> FALSE]

-----------------------------------------------------------------------------
(* Key registry (keys/generated/keys.h, keys/registry.cpp) *)

CAND_CANDIDATE_ID == 1001
FEAT_FRESHNESS == 2001
FEAT_EMBEDDING == 2002
FEAT_QUERY_EMBEDDING == 2003
SCORE_BASE == 3001
SCORE_ML == 3002
SCORE_ADJUSTED == 3003
SCORE_FINAL == 3999
PENALTY_CONSTRAINTS == 4001
PENALTY_DIVERSITY == 4002
DEBUG_NODE_TIMINGS == 9001

kAllKeys ==
  (CAND_CANDIDATE_ID :> "I64") @@ (FEAT_FRESHNESS :> "F32") @@
  (FEAT_EMBEDDING :> "F32Vec") @@ (FEAT_QUERY_EMBEDDING :> "F32Vec") @@
  (SCORE_BASE :> "F32") @@ (SCORE_ML :> "F32") @@ (SCORE_ADJUSTED :> "F32") @@
  (SCORE_FINAL :> "F32") @@ (PENALTY_CONSTRAINTS :> "F32") @@
  (PENALTY_DIVERSITY :> "F32") @@ (DEBUG_NODE_TIMINGS :> "String")

\* KeyRegistry::GetById: the declared KeyType, or "none" for nullptr
GetById(key_id) ==
  IF key_id \in DOMAIN kAllKeys THEN kAllKeys[key_id] ELSE "none"

-----------------------------------------------------------------------------
(* Typed columns (object/typed_column.cpp) *)

\* the variant alternative each column class stores
AltOf(type) ==
  CASE type = "ColF32" -> "float"
    [] type = "ColI64" -> "int64_t"
    [] type = "ColBool" -> "bool"
    [] type = "ColString" -> "string"
    [] type = "ColF32Vec" -> "vector<float>"
    [] type = "ColBytes" -> "vector<uint8_t>"

Width(col) == IF col.type = "ColF32Vec" THEN col.dim ELSE 1

\* TypedColumn::Size
Size(col) ==
  IF col.type = "ColF32Vec"
    THEN (IF col.dim > 0 THEN Len(col.data) \div col.dim ELSE 0)
    ELSE Len(col.data)

\* TypedColumn::IsNull
ColIsNull(col, row_index) ==
  row_index >= Size(col) \/ col.null_mask[row_index + 1]

\* TypedColumn::GetValue
GetValue(col, row_index) ==
  IF row_index >= Size(col) \/ col.null_mask[row_index + 1]
    THEN NullValue
    ELSE [t |-> AltOf(col.type),
          v |-> SubSeq(col.data, row_index * Width(col) + 1,
                       row_index * Width(col) + Width(col))]

\* MakeTypedColumn(type, row_count, dim): all rows null, payload zeroed
MakeTypedColumn(type, row_count, dim) ==
  [type |-> type,
   dim |-> IF type = "ColF32Vec" THEN dim ELSE 0,
   data |-> [i \in 1..(row_count * (IF type = "ColF32Vec" THEN dim ELSE 1)) |-> 0],
   null_mask |-> [i \in 1..row_count |-> TRUE]]

\* TypedColumn::SetValue (and F32VecColumn::Set): the outcome and the column
SetValue(col, row_index, value) ==
  IF row_index >= Size(col)
    THEN [err |-> "OutOfBounds", col |-> col]
  ELSE IF value.t = AltOf(col.type)
    THEN IF col.type = "ColF32Vec" /\ Len(value.v) # col.dim
           THEN [err |-> "DimensionMismatch", col |-> col]
           ELSE [err |-> "ok",
                 col |-> [col EXCEPT
                   !.data = [i \in 1..Len(col.data) |->
                     IF i > row_index * Width(col) /\ i <= (row_index + 1) * Width(col)
                       THEN value.v[i - row_index * Width(col)]
                       ELSE col.data[i]],
                   !.null_mask[row_index + 1] = FALSE]]
  ELSE IF IsNull(value)
    THEN [err |-> "ok", col |-> [col EXCEPT !.null_mask[row_index + 1] = TRUE]]
  ELSE [err |-> "TypeMismatch", col |-> col]

-----------------------------------------------------------------------------
(* ColumnBatch (object/column_batch.cpp) *)

HasColumn(batch, key_id) == key_id \in DOMAIN batch.columns

\* ColumnBatch::GetValue
BatchGetValue(batch, hp, row_index, key_id) ==
  IF ~HasColumn(batch, key_id) \/ row_index >= batch.row_count
    THEN NullValue
    ELSE GetValue(hp[batch.columns[key_id]], row_index)

-----------------------------------------------------------------------------
(* BatchBuilder (object/batch_builder.cpp) *)

KeyTypeToColumnType(kt) ==
  CASE kt = "Bool" -> "ColBool"
    [] kt = "I64" -> "ColI64"
    [] kt = "F32" -> "ColF32"
    [] kt = "String" -> "ColString"
    [] kt = "Bytes" -> "ColBytes"
    [] kt = "F32Vec" -> "ColF32Vec"
    [] OTHER -> "ColNull"

InferColumnType(value) ==
  CASE value.t = "float" -> "ColF32"
    [] value.t = "int64_t" -> "ColI64"
    [] value.t = "bool" -> "ColBool"
    [] value.t = "string" -> "ColString"
    [] value.t = "vector<float>" -> "ColF32Vec"
    [] value.t = "vector<uint8_t>" -> "ColBytes"
    [] OTHER -> "ColNull"

\* The checks of Set before EnsureWritable: an error, or the column type hint
SetPrecheck(n, row_index, key_id, value, registry) ==
  IF row_index >= n THEN [err |-> "OutOfBounds", col_type |-> "ColNull"]
  ELSE IF registry /\ ~IsNull(value)
    THEN IF GetById(key_id) # "none"
           THEN IF InferColumnType(value) # KeyTypeToColumnType(GetById(key_id))
                  THEN [err |-> "TypeMismatch", col_type |-> "ColNull"]
                  ELSE [err |-> "ok",
                        col_type |-> KeyTypeToColumnType(GetById(key_id))]
           ELSE [err |-> "UnknownKey", col_type |-> "ColNull"]
    ELSE [err |-> "ok", col_type |-> InferColumnType(value)]

\* EnsureWritable, the part that creates: the column a first touch allocates
FirstTouchColumn(src, hp, n, key_id, type_hint) ==
  IF ~src.none /\ HasColumn(src, key_id)
    THEN hp[src.columns[key_id]]                       \* Clone()
    ELSE MakeTypedColumn(IF type_hint = "ColNull" THEN "ColF32" ELSE type_hint,
                         n, 0)

\* a builder that writes through the source's own handle instead of a clone
EnsureWritable_NoClone(src, hp, mcols, n, key_id, type_hint) ==
  IF key_id \in DOMAIN mcols
    THEN [handle |-> mcols[key_id], heap |-> hp]
  ELSE IF ~src.none /\ HasColumn(src, key_id)
    THEN [handle |-> src.columns[key_id], heap |-> hp]
    ELSE [handle |-> Len(hp) + 1,
          heap |-> Append(hp, FirstTouchColumn(src, hp, n, key_id, type_hint))]

\* EnsureWritable: the handle to write through and the heap after it
EnsureWritable(src, hp, mcols, n, key_id, type_hint) ==
  IF key_id \in DOMAIN mcols
    THEN [handle |-> mcols[key_id], heap |-> hp]
    ELSE [handle |-> Len(hp) + 1,
          heap |-> Append(hp, FirstTouchColumn(src, hp, n, key_id, type_hint))]

\* a Build that forgets the columns it should share with the source
BuildColumns_DropShared(src, mcols, mkeys) == mcols

\* BatchBuilder::Build: the column map of the result
BuildColumns(src, mcols, mkeys) ==
  LET shared == IF src.none THEN {} ELSE DOMAIN src.columns \ mkeys
  IN [k \in shared \cup DOMAIN mcols |->
        IF k \in DOMAIN mcols THEN mcols[k] ELSE src.columns[k]]

-----------------------------------------------------------------------------
(* BatchBuilder: the inputs of the builder specification *)

Update(f, k, val) == [x \in DOMAIN f \cup {k} |-> IF x = k THEN val ELSE f[x]]

\* the source batches a builder is created on: every subset of three typed
\* columns (i64, f32 with a null in row 0, f32vec of dimension 2)
SourceKeyOrder == <<CAND_CANDIDATE_ID, SCORE_BASE, FEAT_EMBEDDING>>

SourceColumn(key_id, n) ==
  CASE key_id = CAND_CANDIDATE_ID ->
         [type |-> "ColI64", dim |-> 0, data |-> [i \in 1..n |-> i],
          null_mask |-> [i \in 1..n |-> FALSE]]
    [] key_id = SCORE_BASE ->
         [type |-> "ColF32", dim |-> 0, data |-> [i \in 1..n |-> 10 * i],
          null_mask |-> [i \in 1..n |-> i = 1]]
    [] key_id = FEAT_EMBEDDING ->
         [type |-> "ColF32Vec", dim |-> 2, data |-> [i \in 1..(2 * n) |-> i],
          null_mask |-> [i \in 1..n |-> FALSE]]

SourceKeySeq(present) == SelectSeq(SourceKeyOrder, LAMBDA k : k \in present)

SourceHeap(present, n) ==
  [i \in 1..Len(SourceKeySeq(present)) |-> SourceColumn(SourceKeySeq(present)[i], n)]

SourceBatch(present, n) ==
  MkBatch(n, [k \in present |->
                CHOOSE i \in 1..Len(SourceKeySeq(present)) : SourceKeySeq(present)[i] = k])

SourceKeySets ==
  {{}, {CAND_CANDIDATE_ID, SCORE_BASE}, {CAND_CANDIDATE_ID, SCORE_BASE, FEAT_EMBEDDING}}

\* a key-id the registry does not know
UNKNOWN_KEY == DEBUG_NODE_TIMINGS + 1
BuilderKeys == {SCORE_BASE, FEAT_EMBEDDING, UNKNOWN_KEY}

SetValues ==
  {NullValue,
   [t |-> "float", v |-> <<77>>],
   [t |-> "int64_t", v |-> <<88>>],
   [t |-> "vector<float>", v |-> <<8, 9>>],
   [t |-> "vector<float>", v |-> <<8>>]}

\* the columns a caller hands to AddColumn: freshly made, fully set
AddedColumn(type, len) ==
  [type |-> type, dim |-> 0, data |-> [i \in 1..len |-> 55],
   null_mask |-> [i \in 1..len |-> FALSE]]

-----------------------------------------------------------------------------
(* Plans (plan/plan.h) and the node registry (nodes/registry.cpp) *)

\* A PlanNode is [id, op, inputs, params]; params maps a parameter name to a
\* JSON value [jt, v] (jt the JSON type, v the payload as integers).
PlanNode(id, op, inputs, params) ==
  [id |-> id, op |-> op, inputs |-> inputs, params |-> params]

\* Plan: meta.env defaults to "dev"
Plan(env, nodes) == [env |-> env, nodes |-> nodes]
EmptyPlan == Plan("dev", <<>>)

NodeIds(nodes) == {nodes[i].id : i \in 1..Len(nodes)}

\* NodeRegistry::specs_: the operators registered by static initialisation,
\* and one operator an embedder registered with Stability::kExperimental
\* An op name is kept as [prefix, name]: prefix is the text up to and including
\* the first ':' ("" when there is none), name the rest.
Op(prefix, name) == [prefix |-> prefix, name |-> name]
EXPERIMENTAL_OP == Op("core:", "experimental_rank")
NJS_OP == Op("", "njs")
specs_ ==
  [op \in {Op("core:", "sourcer"), Op("core:", "features"), Op("core:", "model"),
           Op("core:", "score_formula"), Op("core:", "merge"), NJS_OP,
           EXPERIMENTAL_OP} |->
     IF op = EXPERIMENTAL_OP THEN "kExperimental" ELSE "kStable"]

\* NodeRegistry::GetSpec: the stability of the registered spec, "none" for nullptr
GetSpec(op) == IF op \in DOMAIN specs_ THEN specs_[op] ELSE "none"

\* NodeSpec::namespace_path of the registered spec
NamespacePath(op) ==
  IF op = EXPERIMENTAL_OP THEN "experimental.core.experimental_rank"
  ELSE IF op = NJS_OP THEN "njs" ELSE "core." \o op.name

\* NodeRegistry::HasOp / Create: a factory exists for the op
HasOp(op) == op \in DOMAIN specs_

\* std::string::rfind(prefix, 0) == 0 for the two prefixes ValidateOps accepts
HasKnownPrefix(op) == op.prefix \in {"core:", "js:"}

-----------------------------------------------------------------------------
(* Errors and compiled plans (plan/compiler.h) *)

\* an error string: the fixed text, and the node id and op it names
Error(msg, id, op) == [msg |-> msg, id |-> id, op |-> op, ns |-> ""]
NoOp == Op("", "")
NoError == Error("", "", NoOp)

\* ComplexityMetrics (plan/complexity.h), all zero by default
ComplexityMetrics(n, e, d, fout, fin) ==
  [node_count |-> n, edge_count |-> e, max_depth |-> d, fanout_peak |-> fout,
   fanin_peak |-> fin, longest_path |-> <<>>]
ZeroMetrics == ComplexityMetrics(0, 0, 0, 0, 0)

\* CompiledPlan as default-constructed by the caller
CompiledPlan(p, order, metrics) ==
  [plan |-> p, topo_order |-> order, complexity |-> metrics]
DefaultCompiledPlan == CompiledPlan(EmptyPlan, <<>>, ZeroMetrics)

\* ScoreWeights, kept in halves: (1.0, 5.0, 2.0, 2.0, 0.5)
DefaultScoreWeights ==
  [node_count |-> 2, max_depth |-> 10, fanout_peak |-> 4, fanin_peak |-> 4,
   edge_count |-> 1]

\* ComplexityBudget: hard and soft limits, 0 = no limit
ComplexityBudget(n, d, fout, fin) ==
  [node_count_hard |-> n, max_depth_hard |-> d, fanout_peak_hard |-> fout,
   fanin_peak_hard |-> fin, edge_count_soft |-> 0, complexity_score_soft |-> 0,
   score_weights |-> DefaultScoreWeights]
SoftLimits(budget, edge_soft, score_soft) ==
  [budget EXCEPT !.edge_count_soft = edge_soft, !.complexity_score_soft = score_soft]
NoBudget == ComplexityBudget(0, 0, 0, 0)
DefaultBudget == SoftLimits(ComplexityBudget(2000, 120, 16, 16), 10000, 8000)

-----------------------------------------------------------------------------
(* PlanCompiler (plan/compiler.cpp, plan/complexity.cpp) *)

\* ValidateNodeIds: the first node whose id was already seen
ValidateNodeIds(p) ==
  LET dup == {i \in 1..Len(p.nodes) : \E j \in 1..(i - 1) : p.nodes[j].id = p.nodes[i].id}
  IN IF dup = {} THEN [ok |-> TRUE, error |-> NoError]
     ELSE LET i == CHOOSE i \in dup : \A j \in dup : i <= j
          IN [ok |-> FALSE, error |-> Error("Duplicate node ID", p.nodes[i].id, NoOp)]

\* adj[id]: the dependents of id, in the order the edges are read
RECURSIVE Dependents(_, _, _)
Dependents(nodes, id, i) ==
  IF i > Len(nodes) THEN <<>>
  ELSE [j \in 1..Len(SelectSeq(nodes[i].inputs, LAMBDA x : x = id)) |-> nodes[i].id]
       \o Dependents(nodes, id, i + 1)

\* in_degree[node.id] = node.inputs.size(); a later node of the same id overwrites
InDegree(nodes) ==
  [id \in NodeIds(nodes) |->
     LET last == CHOOSE i \in 1..Len(nodes) :
                   /\ nodes[i].id = id
                   /\ \A j \in 1..Len(nodes) : nodes[j].id = id => j <= i
     IN Len(nodes[last].inputs)]

\* one pass over adj[current]: decrement, and push what reaches zero
RECURSIVE Relax(_, _, _, _)
Relax(deps, i, in_degree, queue) ==
  IF i > Len(deps) THEN [in_degree |-> in_degree, queue |-> queue]
  ELSE LET d == deps[i]
           deg == [in_degree EXCEPT ![d] = @ - 1]
       IN Relax(deps, i + 1, deg, IF deg[d] = 0 THEN Append(queue, d) ELSE queue)

\* the while loop of Kahn's algorithm
RECURSIVE Kahn(_, _, _, _)
Kahn(nodes, queue, in_degree, out) ==
  IF queue = <<>> THEN out
  ELSE LET current == Head(queue)
           r == Relax(Dependents(nodes, current, 1), 1, in_degree, Tail(queue))
       IN Kahn(nodes, r.queue, r.in_degree, Append(out, current))

\* the queue is seeded in plan order with the nodes of in-degree zero
KahnSeed(nodes) ==
  LET deg == InDegree(nodes)
      zero == SelectSeq(nodes, LAMBDA n : deg[n.id] = 0)
  IN [i \in 1..Len(zero) |-> zero[i].id]

\* TopologicalSort accepting whatever Kahn's loop emitted
TopologicalSort_NoSizeCheck(p) ==
  [ok |-> TRUE, error |-> NoError,
   out |-> Kahn(p.nodes, KahnSeed(p.nodes), InDegree(p.nodes), <<>>)]

\* TopologicalSort
TopologicalSort(p) ==
  LET out == Kahn(p.nodes, KahnSeed(p.nodes), InDegree(p.nodes), <<>>)
  IN IF Len(out) # Len(p.nodes)
       THEN [ok |-> FALSE, error |-> Error("Plan contains a cycle", "", NoOp), out |-> out]
       ELSE [ok |-> TRUE, error |-> NoError, out |-> out]

\* ValidateOps: the first node whose op has neither accepted prefix
ValidateOps(p) ==
  LET bad == {i \in 1..Len(p.nodes) : ~HasKnownPrefix(p.nodes[i].op)}
  IN IF bad = {} THEN [ok |-> TRUE, error |-> NoError]
     ELSE LET i == CHOOSE i \in bad : \A j \in bad : i <= j
          IN [ok |-> FALSE, error |-> Error("Unknown op type", "", p.nodes[i].op)]

\* ValidatePlanEnv: in prod, the first node whose registered spec is experimental
ValidatePlanEnv(p) ==
  LET bad == {i \in 1..Len(p.nodes) : GetSpec(p.nodes[i].op) = "kExperimental"}
  IN IF p.env # "prod" \/ bad = {} THEN [ok |-> TRUE, error |-> NoError]
     ELSE LET i == CHOOSE i \in bad : \A j \in bad : i <= j
          IN [ok |-> FALSE,
              error |-> [Error("Production plans cannot use experimental nodes",
                               p.nodes[i].id, p.nodes[i].op)
                           EXCEPT !.ns = NamespacePath(p.nodes[i].op)]]

\* a RelaxDepth that keeps the depth the first predecessor gave
RECURSIVE RelaxDepth_FirstPredecessor(_, _, _, _, _, _)
RelaxDepth_FirstPredecessor(deps, i, current, st, remaining_in, queue) ==
  IF i > Len(deps) THEN [st |-> st, remaining_in |-> remaining_in, queue |-> queue]
  ELSE LET d == deps[i]
           upd == IF st.predecessor[d] = ""
                    THEN [st EXCEPT !.depth[d] = st.depth[current] + 1,
                                    !.predecessor[d] = current]
                    ELSE st
           rem == [remaining_in EXCEPT ![d] = @ - 1]
       IN RelaxDepth_FirstPredecessor(deps, i + 1, current, upd, rem,
                                      IF rem[d] = 0 THEN Append(queue, d) ELSE queue)

\* the depth-carrying pass over adj[current] in ComputeComplexityMetrics
RECURSIVE RelaxDepth(_, _, _, _, _, _)
RelaxDepth(deps, i, current, st, remaining_in, queue) ==
  IF i > Len(deps) THEN [st |-> st, remaining_in |-> remaining_in, queue |-> queue]
  ELSE LET d == deps[i]
           new_depth == st.depth[current] + 1
           upd == IF new_depth > st.depth[d]
                    THEN [st EXCEPT !.depth[d] = new_depth, !.predecessor[d] = current]
                    ELSE st
           rem == [remaining_in EXCEPT ![d] = @ - 1]
       IN RelaxDepth(deps, i + 1, current, upd, rem,
                     IF rem[d] = 0 THEN Append(queue, d) ELSE queue)

\* Kahn's traversal carrying depth[v] = longest path ending at v, the
\* predecessor map, and the deepest node met so far ("" before the first)
RECURSIVE MaxDepth(_, _, _, _)
MaxDepth(nodes, queue, st, remaining_in) ==
  IF queue = <<>> THEN st
  ELSE LET current == Head(queue)
           seen == IF st.depth[current] > st.max_depth
                     THEN [st EXCEPT !.max_depth = st.depth[current],
                                     !.deepest_node = current]
                     ELSE st
           r == RelaxDepth(Dependents(nodes, current, 1), 1, current, seen,
                           remaining_in, Tail(queue))
       IN MaxDepth(nodes, r.queue, r.st, r.remaining_in)

\* the walk back from deepest_node along predecessor, reversed; a node
\* without predecessor entry ends it.  When predecessor holds a cycle (only
\* possible with a repeated node id, which Compile rejects before it comes
\* here) the loop of the source never ends: NeverReturns stands for that.
NeverReturns == <<"(no return)">>
RECURSIVE LongestPath(_, _, _)
LongestPath(predecessor, current, path) ==
  IF current = "" THEN path
  ELSE IF Len(path) >= Cardinality(DOMAIN predecessor) THEN NeverReturns
  ELSE LongestPath(predecessor, predecessor[current], <<current>> \o path)

SetMax(S) == IF S = {} THEN 0 ELSE CHOOSE x \in S : \A y \in S : y <= x

RECURSIVE EdgeCount(_, _)
EdgeCount(nodes, i) ==
  IF i > Len(nodes) THEN 0 ELSE Len(nodes[i].inputs) + EdgeCount(nodes, i + 1)

\* ComputeComplexityMetrics
ComputeComplexityMetrics(p) ==
  IF p.nodes = <<>> THEN ZeroMetrics
  ELSE LET walk == MaxDepth(p.nodes, KahnSeed(p.nodes),
                            [depth |-> [id \in NodeIds(p.nodes) |-> 1],
                             predecessor |-> [id \in NodeIds(p.nodes) |-> ""],
                             max_depth |-> 0, deepest_node |-> ""],
                            InDegree(p.nodes))
       IN [ComplexityMetrics(
             Len(p.nodes),
             EdgeCount(p.nodes, 1),
             walk.max_depth,
             SetMax({Len(Dependents(p.nodes, id, 1)) : id \in NodeIds(p.nodes)}),
             SetMax({InDegree(p.nodes)[id] : id \in NodeIds(p.nodes)}))
           EXCEPT !.longest_path =
             LongestPath(walk.predecessor, walk.deepest_node, <<>>)]

\* a CheckComplexityBudget that rejects a metric equal to its limit
CheckComplexityBudget_AtLimit(metrics, budget) ==
  ~ \/ (budget.node_count_hard > 0 /\ metrics.node_count >= budget.node_count_hard)
    \/ (budget.max_depth_hard > 0 /\ metrics.max_depth >= budget.max_depth_hard)
    \/ (budget.fanout_peak_hard > 0 /\ metrics.fanout_peak >= budget.fanout_peak_hard)
    \/ (budget.fanin_peak_hard > 0 /\ metrics.fanin_peak >= budget.fanin_peak_hard)

\* CheckComplexityBudget: passed iff no hard limit that is set is exceeded
CheckComplexityBudget(metrics, budget) ==
  ~ \/ (budget.node_count_hard > 0 /\ metrics.node_count > budget.node_count_hard)
    \/ (budget.max_depth_hard > 0 /\ metrics.max_depth > budget.max_depth_hard)
    \/ (budget.fanout_peak_hard > 0 /\ metrics.fanout_peak > budget.fanout_peak_hard)
    \/ (budget.fanin_peak_hard > 0 /\ metrics.fanin_peak > budget.fanin_peak_hard)

\* ComputeComplexityScore: the weighted sum, truncated to an integer
ComputeComplexityScore(metrics, w) ==
  (w.node_count * metrics.node_count + w.max_depth * metrics.max_depth
     + w.fanout_peak * metrics.fanout_peak + w.fanin_peak * metrics.fanin_peak
     + w.edge_count * metrics.edge_count) \div 2

\* CheckComplexityBudget: result.has_warnings
HasWarnings(metrics, budget) ==
  \/ (budget.edge_count_soft > 0 /\ metrics.edge_count > budget.edge_count_soft)
  \/ (budget.complexity_score_soft > 0
        /\ ComputeComplexityScore(metrics, budget.score_weights)
             > budget.complexity_score_soft)

\* ValidateComplexity: metrics always; enforcement against budget_ or Default()
ValidateComplexity(p, budget, enabled) ==
  LET metrics == ComputeComplexityMetrics(p)
      b == IF budget.set THEN budget.value ELSE DefaultBudget
  IN IF enabled /\ ~CheckComplexityBudget(metrics, b)
       THEN [ok |-> FALSE, error |-> Error("PLAN_TOO_COMPLEX", "", NoOp),
             metrics |-> metrics]
       ELSE [ok |-> TRUE, error |-> NoError, metrics |-> metrics]

\* what Compile hands back: its return value, the two out-parameters as it
\* leaves them, and the phases it entered
CompileResult(ok, err, out, phases) ==
  [ok |-> ok, error |-> err, out |-> out, phases |-> phases]

\* Compile with the op check moved in front of the graph checks
Compile_OpsFirst(p, budget, enabled, out0, err0) ==
  LET ops == ValidateOps(p)
      ids == ValidateNodeIds(p)
      topo == TopologicalSort(p)
      env == ValidatePlanEnv(p)
      cx == ValidateComplexity(p, budget, enabled)
  IN IF ~ops.ok THEN CompileResult(FALSE, ops.error, out0, <<"ValidateOps">>)
     ELSE IF ~ids.ok
       THEN CompileResult(FALSE, ids.error, out0, <<"ValidateOps", "ValidateNodeIds">>)
     ELSE IF ~topo.ok
       THEN CompileResult(FALSE, topo.error, out0,
                          <<"ValidateOps", "ValidateNodeIds", "TopologicalSort">>)
     ELSE IF ~env.ok
       THEN CompileResult(FALSE, env.error, out0,
                          <<"ValidateOps", "ValidateNodeIds", "TopologicalSort",
                            "ValidatePlanEnv">>)
     ELSE IF ~cx.ok
       THEN CompileResult(FALSE, cx.error, out0,
                          <<"ValidateOps", "ValidateNodeIds", "TopologicalSort",
                            "ValidatePlanEnv", "ValidateComplexity">>)
     ELSE CompileResult(TRUE, err0, CompiledPlan(p, topo.out, cx.metrics),
                        <<"ValidateOps", "ValidateNodeIds", "TopologicalSort",
                          "ValidatePlanEnv", "ValidateComplexity">>)

\* PlanCompiler::Compile
Compile(p, budget, enabled, out0, err0) ==
  LET ids == ValidateNodeIds(p)
      topo == TopologicalSort(p)
      ops == ValidateOps(p)
      env == ValidatePlanEnv(p)
      cx == ValidateComplexity(p, budget, enabled)
  IN IF ~ids.ok THEN CompileResult(FALSE, ids.error, out0, <<"ValidateNodeIds">>)
     ELSE IF ~topo.ok
       THEN CompileResult(FALSE, topo.error, out0,
                          <<"ValidateNodeIds", "TopologicalSort">>)
     ELSE IF ~ops.ok
       THEN CompileResult(FALSE, ops.error, out0,
                          <<"ValidateNodeIds", "TopologicalSort", "ValidateOps">>)
     ELSE IF ~env.ok
       THEN CompileResult(FALSE, env.error, out0,
                          <<"ValidateNodeIds", "TopologicalSort", "ValidateOps",
                            "ValidatePlanEnv">>)
     ELSE IF ~cx.ok
       THEN CompileResult(FALSE, cx.error, out0,
                          <<"ValidateNodeIds", "TopologicalSort", "ValidateOps",
                            "ValidatePlanEnv", "ValidateComplexity">>)
     ELSE CompileResult(TRUE, err0, CompiledPlan(p, topo.out, cx.metrics),
                        <<"ValidateNodeIds", "TopologicalSort", "ValidateOps",
                          "ValidatePlanEnv", "ValidateComplexity">>)

\* std::optional<ComplexityBudget>
NoBudgetSet == [set |-> FALSE, value |-> NoBudget]
BudgetSet(b) == [set |-> TRUE, value |-> b]

CIdle ==
  /\ plan = EmptyPlan /\ budget_ = NoBudgetSet /\ complexity_check_enabled_ = TRUE
  /\ compiled = DefaultCompiledPlan /\ error = NoError /\ c_pc = "idle"
  /\ h_phases = <<>>

-----------------------------------------------------------------------------
(* ParsePlan (plan/plan.cpp) *)

\* a trace_key is kept as its length and whether all its characters are in
\* [A-Za-z0-9._/-]; length 0 is "not set"
TraceKey(len, charset_ok) == [len |-> len, charset_ok |-> charset_ok]
NoTraceKey == TraceKey(0, TRUE)

\* ValidateTraceKey: "" when valid, else the message
ValidateTraceKey(trace_key) ==
  IF trace_key.len = 0 THEN ""
  ELSE IF trace_key.len > 64 THEN "trace_key must be at most 64 characters"
  ELSE IF ~trace_key.charset_ok THEN "trace_key must only contain [A-Za-z0-9._/-]"
  ELSE ""

\* a plan document: meta is "absent", or present with env "absent" or a string
\* (has_env tells the two apart); nodes are [node, trace_key]
PlanJson(has_meta, has_env, env, nodes) ==
  [has_meta |-> has_meta, has_env |-> has_env, env |-> env, nodes |-> nodes]
NoPlanJson == PlanJson(FALSE, FALSE, "", <<>>)

\* ParsePlan: fills out.nodes node by node and stops at the first invalid
\* trace_key; meta of the document is not read, out.meta stays as it was
ParsePlan(json, out, err0) ==
  LET bad == {i \in 1..Len(json.nodes) : ValidateTraceKey(json.nodes[i].trace_key) # ""}
      first == CHOOSE i \in bad : \A j \in bad : i <= j
  IN IF bad = {}
       THEN [ok |-> TRUE, error |-> err0,
             out |-> [out EXCEPT !.nodes = [i \in 1..Len(json.nodes) |-> json.nodes[i].node]]]
       ELSE [ok |-> FALSE,
             error |-> Error(ValidateTraceKey(json.nodes[first].trace_key),
                             json.nodes[first].node.id, NoOp),
             out |-> [out EXCEPT !.nodes = [i \in 1..(first - 1) |-> json.nodes[i].node]]]

PIdle == plan_json = NoPlanJson /\ p_pc = "idle"

-----------------------------------------------------------------------------
(* Tracer (logging/trace.cpp) *)

\* Tracer::LogNodeStart: one node_start record when tracing is enabled
LogNodeStart(log, enabled, node_id, op) ==
  IF ~enabled THEN log
  ELSE Append(log, [event |-> "node_start", node_id |-> node_id, op |-> op,
                    rows_in |-> 0, rows_out |-> 0, error |-> ""])

\* Tracer::LogNodeEnd, called without its error argument (default ""): one
\* node_end record when tracing is enabled
LogNodeEnd(log, enabled, node_id, op, rows_in, rows_out) ==
  IF ~enabled THEN log
  ELSE Append(log, [event |-> "node_end", node_id |-> node_id, op |-> op,
                    rows_in |-> rows_in, rows_out |-> rows_out, error |-> ""])

\* the tracer as the program starts: enabled, nothing written
TIdle == enabled_ = TRUE /\ trace_log = <<>>

-----------------------------------------------------------------------------
(* Node parameters (nlohmann::json) *)

\* a JSON value: jt its type, v its numbers, s its text.  A float is kept in
\* fixed point, F32_SCALE units to 1.0.
F32_SCALE == 1000
JNum(n) == [jt |-> "number", v |-> <<n>>, s |-> ""]
JStr(s) == [jt |-> "string", v |-> <<>>, s |-> s]
JArr(ns) == [jt |-> "array", v |-> ns, s |-> ""]
JStrArr(s) == [jt |-> "string_array", v |-> <<>>, s |-> s]
\* an expression object: {"op": op} with its value / key_id field a number,
\* with that field a string, and with an args array
JExpr(op, arg) ==
  [jt |-> "object", v |-> <<arg>>, s |-> op, vt |-> "number", args |-> <<>>]
JExprText(op) ==
  [jt |-> "object", v |-> <<0>>, s |-> op, vt |-> "string", args |-> <<>>]
JOp(op, args) ==
  [jt |-> "object", v |-> <<0>>, s |-> op, vt |-> "number", args |-> args]

\* json::value(name, int default): type_error when present and not a number
ParamInt(params, name, default) ==
  IF name \notin DOMAIN params THEN [threw |-> FALSE, value |-> default]
  ELSE IF params[name].jt = "number"
    THEN [threw |-> FALSE, value |-> params[name].v[1]]
    ELSE [threw |-> TRUE, value |-> 0]

\* json::value(name, string default): type_error when present and not a string
ParamString(params, name, default) ==
  IF name \notin DOMAIN params THEN [threw |-> FALSE, value |-> default]
  ELSE IF params[name].jt = "string"
    THEN [threw |-> FALSE, value |-> params[name].s]
    ELSE [threw |-> TRUE, value |-> ""]

-----------------------------------------------------------------------------
(* Built-in operators (nodes/core) *)

\* what NodeRunner::Run leaves: the heap, the batch returned, or an exception
Returned(hp, batch) == [threw |-> FALSE, what |-> "", heap |-> hp, batch |-> batch]
Threw(hp, what) == [threw |-> TRUE, what |-> what, heap |-> hp, batch |-> NoBatch]

EmptyBatch == MkBatch(0, EmptyMap)

\* a KeyRegistry as constructed: no key loaded
EmptyRegistry == [keys_ |-> <<>>, by_id_ |-> EmptyMap, by_name_ |-> EmptyMap]

\* no document is being loaded
KIdle ==
  /\ registry_json = [valid |-> TRUE, keys |-> <<>>] /\ key_registry = EmptyRegistry
  /\ k_pc = "idle" /\ k_error = ""

\* MergeNode is not called on its own
MIdle ==
  /\ m_input = NoBatch /\ m_params = EmptyMap /\ m_pc = "idle"
  /\ m_result = Returned(<<>>, NoBatch)

\* ScoreFormulaNode is not called on its own
SFIdle ==
  /\ sf_input = NoBatch /\ sf_params = EmptyMap /\ sf_pc = "idle"
  /\ sf_result = Returned(<<>>, NoBatch)

\* a column built with Set on every row
FilledColumn(type, dim, data, n) ==
  [type |-> type, dim |-> dim, data |-> data, null_mask |-> [i \in 1..n |-> FALSE]]

\* ColumnBatch::GetI64Column / GetF32Column: nullptr unless present with that type
GetTypedColumn(batch, hp, key_id, type) ==
  IF key_id \in DOMAIN batch.columns /\ hp[batch.columns[key_id]].type = type
    THEN [null |-> FALSE, col |-> hp[batch.columns[key_id]]]
    ELSE [null |-> TRUE, col |-> MakeTypedColumn("ColF32", 0, 0)]

\* SourcerNode::Run
DEFAULT_K == 100
SourcerNode(hp, input, params) ==
  LET k == ParamInt(params, "k", DEFAULT_K)
  IN IF k.threw THEN Threw(hp, "json type_error")
     ELSE IF k.value < 0 THEN Threw(hp, "std::length_error")
     ELSE LET n == k.value
              id_column == FilledColumn("ColI64", 0, [i \in 1..n |-> i], n)
              score_column ==
                FilledColumn("ColF32", 0,
                  [i \in 1..n |-> F32_SCALE - ((i - 1) * F32_SCALE) \div n], n)
              h2 == hp \o <<id_column, score_column>>
          IN Returned(h2, MkBatch(n, (CAND_CANDIDATE_ID :> Len(hp) + 1)
                                       @@ (SCORE_BASE :> Len(hp) + 2)))

\* the column FeaturesNode::Run makes for one key
EMBEDDING_DIM == 128
FeatureColumn(input, hp, key_id) ==
  LET n == input.row_count
      id_col == GetTypedColumn(input, hp, CAND_CANDIDATE_ID, "ColI64")
  IN IF key_id = FEAT_FRESHNESS
       THEN FilledColumn("ColF32", 0,
              [i \in 1..n |->
                 IF ~id_col.null /\ ~ColIsNull(id_col.col, i - 1)
                   THEN ((id_col.col.data[i] % 100) * F32_SCALE) \div 100
                   ELSE F32_SCALE \div 2], n)
     ELSE IF key_id \in {FEAT_EMBEDDING, FEAT_QUERY_EMBEDDING}
       THEN FilledColumn("ColF32Vec", EMBEDDING_DIM,
              [i \in 1..(n * EMBEDDING_DIM) |-> F32_SCALE \div 10], n)
     ELSE FilledColumn("ColF32", 0, [i \in 1..n |-> 0], n)

\* a loop that overwrites the input's column when the input has the key
RECURSIVE AddFeatures_InPlace(_, _, _, _, _)
AddFeatures_InPlace(input, hp, keys, i, mcols) ==
  IF i > Len(keys) THEN [heap |-> hp, mcols |-> mcols]
  ELSE IF keys[i] \in DOMAIN input.columns
    THEN AddFeatures_InPlace(
           input,
           [hp EXCEPT ![input.columns[keys[i]]] = FeatureColumn(input, hp, keys[i])],
           keys, i + 1, Update(mcols, keys[i], input.columns[keys[i]]))
  ELSE AddFeatures_InPlace(input, hp \o <<FeatureColumn(input, hp, keys[i])>>, keys,
                           i + 1, Update(mcols, keys[i], Len(hp) + 1))

\* the AddColumn loop of FeaturesNode::Run over feature_keys
RECURSIVE AddFeatures(_, _, _, _, _)
AddFeatures(input, hp, keys, i, mcols) ==
  IF i > Len(keys) THEN [heap |-> hp, mcols |-> mcols]
  ELSE AddFeatures(input, hp \o <<FeatureColumn(input, hp, keys[i])>>, keys, i + 1,
                   Update(mcols, keys[i], Len(hp) + 1))

\* FeaturesNode::Run
FeaturesNode(hp, input, params) ==
  LET has == "keys" \in DOMAIN params
      feature_keys == IF has THEN params["keys"].v ELSE <<>>
  IN IF has /\ params["keys"].jt # "array" THEN Threw(hp, "json type_error")
     ELSE IF input.row_count = 0 \/ feature_keys = <<>> THEN Returned(hp, input)
     ELSE LET r == AddFeatures(input, hp, feature_keys, 1, EmptyMap)
          IN Returned(r.heap,
                      MkBatch(input.row_count,
                              BuildColumns(input, r.mcols, DOMAIN r.mcols)))

\* the float a legacy Column cell yields through std::get_if<float>, else 0
FloatOrZero(batch, hp, key_id, row_index) ==
  IF key_id \in DOMAIN batch.columns
       /\ GetValue(hp[batch.columns[key_id]], row_index).t = "float"
    THEN GetValue(hp[batch.columns[key_id]], row_index).v[1]
    ELSE 0

\* ModelNode::Run: score.ml = 0.6 * score.base + 0.4 * feat.freshness
ModelNode(hp, input, params) ==
  IF input.row_count = 0 THEN Returned(hp, input)
  ELSE LET n == input.row_count
           ml_col == FilledColumn("ColF32", 0,
                       [i \in 1..n |->
                          (6 * FloatOrZero(input, hp, SCORE_BASE, i - 1)
                             + 4 * FloatOrZero(input, hp, FEAT_FRESHNESS, i - 1)) \div 10],
                       n)
       IN Returned(hp \o <<ml_col>>,
                   MkBatch(n, BuildColumns(input, (SCORE_ML :> Len(hp) + 1), {SCORE_ML})))

GetFloatValueFromBatch_NoI64(batch, hp, row_index, key_id) ==
  LET val == BatchGetValue(batch, hp, row_index, key_id)
  IN IF val.t = "float" THEN val.v[1] ELSE 0

\* GetFloatValueFromBatch (expr/expr.cpp): a float as it is, an int64_t
\* static_cast to float, 0 for null and every other alternative
GetFloatValueFromBatch(batch, hp, row_index, key_id) ==
  LET val == BatchGetValue(batch, hp, row_index, key_id)
  IN IF val.t = "float" THEN val.v[1]
     ELSE IF val.t = "int64_t" THEN val.v[1] * F32_SCALE
     ELSE 0

\* the error ParseExpr leaves in *error_out after parsing the arguments in
\* order: each failing argument overwrites it
RECURSIVE LastError(_, _, _)
LastError(parsed, i, err) ==
  IF i > Len(parsed) THEN err
  ELSE LastError(parsed, i + 1, IF parsed[i].error # "" THEN parsed[i].error ELSE err)

\* ParseExpr for const, signal, add, min and max: the node, and what the call
\* wrote to *error_out ("" when it wrote nothing).  An unknown op and a field
\* of the wrong JSON type (the exception is caught) both give ConstExpr{0}.
RECURSIVE ParseExpr(_)
ParseExpr(json) ==
  LET default == [op |-> "const", arg |-> 0, args |-> <<>>]
  IN IF json.jt # "object"
       THEN [node |-> default, error |-> "Expression parse error"]
     ELSE IF json.s \in {"const", "signal"}
       THEN IF json.vt = "number"
              THEN [node |-> [op |-> json.s, arg |-> json.v[1], args |-> <<>>],
                    error |-> ""]
              ELSE [node |-> default, error |-> "Expression parse error"]
     ELSE IF json.s \in {"add", "min", "max"}
       THEN LET parsed == [i \in 1..Len(json.args) |-> ParseExpr(json.args[i])]
            IN [node |-> [op |-> json.s, arg |-> 0,
                          args |-> [i \in 1..Len(parsed) |-> parsed[i].node]],
                error |-> LastError(parsed, 1, "")]
     ELSE [node |-> default, error |-> "Unknown expression op"]

\* the fold of AddExpr / MinExpr / MaxExpr over the evaluated arguments
RECURSIVE FoldArgs(_, _, _, _)
FoldArgs(op, vals, i, acc) ==
  IF i > Len(vals) THEN acc
  ELSE FoldArgs(op, vals, i + 1,
         CASE op = "add" -> acc + vals[i]
           [] op = "min" -> (IF vals[i] < acc THEN vals[i] ELSE acc)
           [] op = "max" -> (IF acc < vals[i] THEN vals[i] ELSE acc))

\* EvalExpr over a batch row, for ConstExpr, SignalExpr, AddExpr, MinExpr and
\* MaxExpr
RECURSIVE EvalExpr(_, _, _, _)
EvalExpr(expr, batch, hp, row_index) ==
  IF expr.op = "const" THEN expr.arg
  ELSE IF expr.op = "signal"
    THEN GetFloatValueFromBatch(batch, hp, row_index, expr.arg)
  ELSE LET vals == [i \in 1..Len(expr.args) |->
                      EvalExpr(expr.args[i], batch, hp, row_index)]
       IN IF expr.op = "add" THEN FoldArgs("add", vals, 1, 0)
          ELSE IF vals = <<>> THEN 0
          ELSE FoldArgs(expr.op, vals, 2, vals[1])

\* ScoreFormulaNode::Run: the string ParseExpr wrote to `error` is never read
ScoreFormulaNode(hp, input, params) ==
  LET output_key == ParamInt(params, "output_key_id", SCORE_FINAL)
      expr == IF "expr" \in DOMAIN params THEN ParseExpr(params["expr"]).node
              ELSE [op |-> "signal", arg |-> SCORE_BASE, args |-> <<>>]
      n == input.row_count
  IN IF output_key.threw THEN Threw(hp, "json type_error")
     ELSE IF n = 0 THEN Returned(hp, input)
     ELSE LET output_col == FilledColumn("ColF32", 0,
                              [i \in 1..n |-> EvalExpr(expr, input, hp, i - 1)], n)
          IN Returned(hp \o <<output_col>>,
                      MkBatch(n, BuildColumns(input, (output_key.value :> Len(hp) + 1),
                                              {output_key.value})))

\* std::sort of a set of row indices / the ascending key order of a column map
RECURSIVE SortedSeq(_)
SortedSeq(S) ==
  IF S = {} THEN <<>>
  ELSE LET lo == CHOOSE x \in S : \A y \in S : x <= y
       IN <<lo>> \o SortedSeq(S \ {lo})

\* the best_row loop of MergeNode::Run
RECURSIVE BestRow(_, _, _, _, _, _)
BestRow(id_col, score_col, dedup, i, n, best_row) ==
  IF i >= n THEN best_row
  ELSE IF id_col.null \/ ColIsNull(id_col.col, i)
    THEN BestRow(id_col, score_col, dedup, i + 1, n, best_row)
  ELSE LET id == id_col.col.data[i + 1]
       IN IF id \notin DOMAIN best_row
            THEN BestRow(id_col, score_col, dedup, i + 1, n, Update(best_row, id, i))
          ELSE IF dedup = "max_base" /\ ~score_col.null
            THEN LET existing_score ==
                       IF ColIsNull(score_col.col, best_row[id]) THEN 0
                       ELSE score_col.col.data[best_row[id] + 1]
                     new_score ==
                       IF ColIsNull(score_col.col, i) THEN 0
                       ELSE score_col.col.data[i + 1]
                 IN BestRow(id_col, score_col, dedup, i + 1, n,
                            IF new_score > existing_score
                              THEN Update(best_row, id, i) ELSE best_row)
          ELSE BestRow(id_col, score_col, dedup, i + 1, n, best_row)

\* out_col->SetValue(out_idx, src_col->GetValue(src_idx)) for every selected row
RECURSIVE CopyRows(_, _, _, _)
CopyRows(src_col, out_col, selected_rows, j) ==
  IF j > Len(selected_rows) THEN [err |-> "ok", col |-> out_col]
  ELSE LET sv == SetValue(out_col, j - 1, GetValue(src_col, selected_rows[j]))
       IN IF sv.err # "ok" THEN sv
          ELSE CopyRows(src_col, sv.col, selected_rows, j + 1)

\* the column loop of MergeNode::Run, keys taken in ascending order
RECURSIVE MergeColumns(_, _, _, _, _, _)
MergeColumns(input, hp0, hp, keys, selected_rows, cols) ==
  IF keys = <<>> THEN [err |-> "ok", heap |-> hp, cols |-> cols]
  ELSE LET src_col == hp0[input.columns[Head(keys)]]
           made == MakeTypedColumn(src_col.type, Len(selected_rows), src_col.dim)
           r == CopyRows(src_col, made, selected_rows, 1)
       IN IF r.err # "ok" THEN [err |-> r.err, heap |-> hp, cols |-> cols]
          ELSE MergeColumns(input, hp0, Append(hp, r.col), Tail(keys), selected_rows,
                            Update(cols, Head(keys), Len(hp) + 1))

\* MergeNode::Run
MergeNode(hp, input, params) ==
  LET dedup == ParamString(params, "dedup", "first")
  IN IF dedup.threw THEN Threw(hp, "json type_error")
     ELSE IF input.row_count = 0 THEN Returned(hp, EmptyBatch)
     ELSE LET best_row ==
                BestRow(GetTypedColumn(input, hp, CAND_CANDIDATE_ID, "ColI64"),
                        GetTypedColumn(input, hp, SCORE_BASE, "ColF32"),
                        dedup.value, 0, input.row_count, EmptyMap)
              selected_rows == SortedSeq({best_row[id] : id \in DOMAIN best_row})
              r == MergeColumns(input, hp, hp, SortedSeq(DOMAIN input.columns),
                                selected_rows, EmptyMap)
          IN IF r.err # "ok" THEN Threw(hp, r.err)
             ELSE Returned(r.heap, MkBatch(Len(selected_rows), r.cols))

\* runner->Run for the runner NodeRegistry::Create made; the embedder's
\* experimental operator passes its input through
RunOp(op, hp, input, params) ==
  CASE op = Op("core:", "sourcer") -> SourcerNode(hp, input, params)
    [] op = Op("core:", "features") -> FeaturesNode(hp, input, params)
    [] op = Op("core:", "model") -> ModelNode(hp, input, params)
    [] op = Op("core:", "score_formula") -> ScoreFormulaNode(hp, input, params)
    [] op = Op("core:", "merge") -> MergeNode(hp, input, params)
    [] op = EXPERIMENTAL_OP -> Returned(hp, input)

-----------------------------------------------------------------------------
(* Executor (executor/executor.cpp) *)

\* node_by_id[node_id]: the last node of that id, or "none"
NodeById(p, node_id) ==
  IF node_id \in NodeIds(p.nodes)
    THEN LET i == CHOOSE i \in 1..Len(p.nodes) :
                    /\ p.nodes[i].id = node_id
                    /\ \A j \in 1..Len(p.nodes) : p.nodes[j].id = node_id => j <= i
         IN [none |-> FALSE, node |-> p.nodes[i]]
    ELSE [none |-> TRUE, node |-> PlanNode("", NoOp, <<>>, EmptyMap)]

\* the input gathering of Execute: the first input's output, or an empty batch
GatherInput(node, outs) ==
  IF node.inputs # <<>> /\ node.inputs[1] \in DOMAIN outs
    THEN outs[node.inputs[1]]
    ELSE EmptyBatch

\* an Execute that walks the nodes as the plan lists them
ExecOrder_PlanOrder(cp) == [i \in 1..Len(cp.plan.nodes) |-> cp.plan.nodes[i].id]

\* the order the loop of Execute walks
ExecOrder(cp) == cp.topo_order

EIdle ==
  /\ outputs = EmptyMap /\ e_idx = 0 /\ e_pc = "idle" /\ e_result = NoBatch
  /\ e_exception = "" /\ h_runs = <<>>

-----------------------------------------------------------------------------
(* Guest-module BatchContext (nodes/js/batch_context.cpp) *)

\* NjsBudget: the write limits, the IO limits (0 by default) and the totals
NjsBudget(max_bytes, max_cells) ==
  [max_write_bytes |-> max_bytes, max_write_cells |-> max_cells,
   bytes_written |-> 0, cells_written |-> 0,
   max_io_read_bytes |-> 0, max_io_read_rows |-> 0,
   io_bytes_read |-> 0, io_rows_read |-> 0]

\* sizeof(float) and sizeof(int64_t)
SizeOf(key_type) == IF key_type = "I64" THEN 8 ELSE 4

\* BatchContext::CheckWriteAllowed: "ok" or the error thrown
CheckWriteAllowed(allowed_writes, registry, key_id, expected_type) ==
  IF key_id \notin allowed_writes THEN "WriteNotDeclared"
  ELSE IF registry /\ GetById(key_id) = "none" THEN "UnknownKey"
  ELSE IF registry /\ GetById(key_id) # expected_type THEN "TypeMismatch"
  ELSE "ok"

\* a CheckBudget that books the bytes before it looks at the cells
CheckBudget_BytesBookedEarly(budget, bytes, cells) ==
  IF budget.bytes_written + bytes > budget.max_write_bytes
    THEN [err |-> "BudgetExceeded", budget |-> budget]
  ELSE IF budget.cells_written + cells > budget.max_write_cells
    THEN [err |-> "BudgetExceeded",
          budget |-> [budget EXCEPT !.bytes_written = @ + bytes]]
  ELSE [err |-> "ok",
        budget |-> [budget EXCEPT !.bytes_written = @ + bytes,
                                  !.cells_written = @ + cells]]

\* BatchContext::CheckBudget: the error thrown, or the totals after booking
CheckBudget(budget, bytes, cells) ==
  IF budget.bytes_written + bytes > budget.max_write_bytes
       \/ budget.cells_written + cells > budget.max_write_cells
    THEN [err |-> "BudgetExceeded", budget |-> budget]
    ELSE [err |-> "ok",
          budget |-> [budget EXCEPT !.bytes_written = @ + bytes,
                                    !.cells_written = @ + cells]]

\* AllocateF32 / AllocateI64 / AllocateF32Vec: the checks, then the column
Allocate(input, hp, allowed_writes, registry, budget, allocated, key_id, key_type, dim) ==
  LET n == input.row_count
      bytes == n * (IF key_type = "F32Vec" THEN dim ELSE 1) * SizeOf(key_type)
      allowed == CheckWriteAllowed(allowed_writes, registry, key_id, key_type)
      booked == CheckBudget(budget, bytes, n)
      unchanged == [heap |-> hp, budget |-> budget, allocated |-> allocated,
                    bytes |-> bytes, cells |-> n]
  IN IF allowed # "ok" THEN [err |-> allowed] @@ unchanged
     ELSE IF booked.err # "ok"
       THEN [err |-> booked.err, budget |-> booked.budget] @@ unchanged
     ELSE [err |-> "ok",
           heap |-> Append(hp, MakeTypedColumn(KeyTypeToColumnType(key_type), n, dim)),
           budget |-> booked.budget,
           allocated |-> Append(allocated, [key_id |-> key_id, column |-> Len(hp) + 1]),
           bytes |-> bytes, cells |-> n]

\* the guest's numbers copied through the raw data pointer (CommitTrackedWrites,
\* or a column function writing in place): the null mask is not touched
RECURSIVE WriteRaw(_, _, _, _)
WriteRaw(hp, allocated, i, fill) ==
  IF i > Len(allocated) THEN hp
  ELSE LET h == allocated[i].column
       IN WriteRaw([hp EXCEPT ![h].data = [p \in 1..Len(hp[h].data) |-> fill]],
                   allocated, i + 1, fill)

\* BatchContext::Commit: builder_.AddColumn for each allocation, in order
RECURSIVE Commit(_, _, _)
Commit(allocated, i, mcols) ==
  IF i > Len(allocated) THEN mcols
  ELSE Commit(allocated, i + 1, Update(mcols, allocated[i].key_id, allocated[i].column))

NoCall ==
  [key_id |-> 0, key_type |-> "", err |-> "none", caught |-> FALSE, bytes |-> 0,
   cells |-> 0, budget_before |-> NjsBudget(0, 0), allocated_before |-> <<>>,
   heap_before |-> 0]

-----------------------------------------------------------------------------
(* Guest-module IO and instruction counting (nodes/js/njs_runner.cpp) *)

\* NjsPolicy: the allowlist entries and the assets directory; set tells
\* whether SetPolicy was called with a policy
NjsPolicyEntry(name, version, allow) ==
  [name |-> name, version |-> version, allow_io_csv_read |-> allow]
NjsPolicy(dir, entries) == [set |-> TRUE, csv_assets_dir_ |-> dir, entries_ |-> entries]
NoPolicy == [set |-> FALSE, csv_assets_dir_ |-> "", entries_ |-> <<>>]

\* an IsIoCsvReadAllowed that allows what no entry matches
IsIoCsvReadAllowed_DefaultAllow(policy, name, version) ==
  LET match == {i \in 1..Len(policy.entries_) :
                  /\ policy.entries_[i].name = name
                  /\ policy.entries_[i].version \in {"", version}}
  IN IF match = {} THEN TRUE
     ELSE policy.entries_[CHOOSE i \in match : \A j \in match : i <= j].allow_io_csv_read

\* NjsPolicy::IsIoCsvReadAllowed: the first entry of that name whose version is
\* empty or equal decides; no such entry denies
IsIoCsvReadAllowed(policy, name, version) ==
  LET match == {i \in 1..Len(policy.entries_) :
                  /\ policy.entries_[i].name = name
                  /\ policy.entries_[i].version \in {"", version}}
  IN IF match = {} THEN FALSE
     ELSE policy.entries_[CHOOSE i \in match : \A j \in match : i <= j].allow_io_csv_read

\* the part of NjsMeta that Run consults for IO
NjsMeta(name, version, csv_read) ==
  [name |-> name, version |-> version, csv_read |-> csv_read]

\* struct JsContext: IO switch, assets directory, instruction counter
JsContext(io_enabled, dir, count, max, interrupted) ==
  [io_enabled |-> io_enabled, csv_assets_dir |-> dir, instruction_count |-> count,
   max_instructions |-> max, interrupted |-> interrupted]

\* a ValidateCsvPath without the traversal test
ValidateCsvPath_NoTraversalCheck(resource) ==
  IF resource # <<>> /\ resource[1] \in {"/", "\\"} THEN "Absolute paths not allowed"
  ELSE IF \E i \in 1..Len(resource) : resource[i] = "\\"
    THEN "Backslash not allowed in path"
  ELSE ""

\* ValidateCsvPath over a resource kept as its sequence of characters: "" when
\* accepted, else the message
ValidateCsvPath(resource) ==
  IF resource # <<>> /\ resource[1] \in {"/", "\\"} THEN "Absolute paths not allowed"
  ELSE IF \E i \in 1..(Len(resource) - 1) : resource[i] = "." /\ resource[i + 1] = "."
    THEN "Path traversal not allowed"
  ELSE IF \E i \in 1..Len(resource) : resource[i] = "\\"
    THEN "Backslash not allowed in path"
  ELSE ""

\* a file as the sizes of its lines, the header first; exists = FALSE when
\* there is no file at the path
CsvFile(lines) == [exists |-> TRUE, lines |-> lines]
NoFile == [exists |-> FALSE, lines |-> <<>>]

\* the loop over the data rows of ParseCsvFile: stops at the first row that
\* takes a total over its limit
RECURSIVE ReadRows(_, _, _, _, _)
ReadRows(lines, i, bytes_read, row_count, budget) ==
  IF i > Len(lines)
    THEN [err |-> "ok", bytes_read |-> bytes_read, row_count |-> row_count]
  ELSE LET bytes == bytes_read + lines[i] + 1
       IN IF budget.io_bytes_read + bytes > budget.max_io_read_bytes
            THEN [err |-> "IO budget exceeded: max_io_read_bytes",
                  bytes_read |-> bytes, row_count |-> row_count]
          ELSE IF budget.io_rows_read + row_count + 1 > budget.max_io_read_rows
            THEN [err |-> "IO budget exceeded: max_io_read_rows",
                  bytes_read |-> bytes, row_count |-> row_count]
          ELSE ReadRows(lines, i + 1, bytes, row_count + 1, budget)

\* ParseCsvFile: the error or the row count returned, whether the file was
\* opened, and the budget as it is left
ParseCsvFile(file, budget) ==
  IF budget.max_io_read_bytes = 0 \/ budget.max_io_read_rows = 0
    THEN [err |-> "IO budget not configured", opened |-> FALSE, row_count |-> 0,
          budget |-> budget]
  ELSE IF ~file.exists
    THEN [err |-> "Failed to open CSV file", opened |-> TRUE, row_count |-> 0,
          budget |-> budget]
  ELSE LET header == IF file.lines = <<>> THEN 0 ELSE file.lines[1] + 1
           r == ReadRows(file.lines, 2, header, 0, budget)
       IN IF r.err # "ok"
            THEN [err |-> r.err, opened |-> TRUE, row_count |-> 0, budget |-> budget]
            ELSE [err |-> "ok", opened |-> TRUE, row_count |-> r.row_count,
                  budget |-> [budget EXCEPT !.io_bytes_read = @ + r.bytes_read,
                                            !.io_rows_read = @ + r.row_count]]

\* JsIoReadCsv: the capability test, the path test, then the parse of
\* csv_assets_dir + "/" + resource
JsIoReadCsv(ctx, budget, resource, file) ==
  IF ~ctx.io_enabled
    THEN [err |-> "IO capability not enabled for this module", opened |-> FALSE,
          row_count |-> 0, budget |-> budget]
  ELSE IF ValidateCsvPath(resource) # ""
    THEN [err |-> ValidateCsvPath(resource), opened |-> FALSE, row_count |-> 0,
          budget |-> budget]
  ELSE ParseCsvFile(file, budget)

\* JsInterruptHandler: counts, and interrupts at the cap
JsInterruptHandler(ctx) ==
  [ctx EXCEPT !.instruction_count = @ + 1,
              !.interrupted = (ctx.instruction_count + 1 >= ctx.max_instructions)]
\* no readCsv call made yet
NoRead ==
  [resource |-> <<>>, file |-> NoFile, err |-> "none", caught |-> FALSE,
   opened |-> FALSE, row_count |-> 0, budget_before |-> NjsBudget(0, 0)]

GIdle ==
  /\ policy_ = NoPolicy /\ g_meta = NjsMeta("", "", FALSE)
  /\ js_ctx = JsContext(FALSE, "", 0, 0, FALSE) /\ g_invocations = 0
  /\ io_last = NoRead /\ h_opened = <<>>
  /\ g_input = NoBatch /\ allowed_writes_ = {} /\ g_registry = FALSE
  /\ njs_budget = NjsBudget(0, 0) /\ allocated_columns_ = <<>> /\ g_pc = "idle"
  /\ g_module = "" /\ g_result = NoBatch /\ g_error = "" /\ g_calls = 0
  /\ g_last = NoCall /\ h_accepted = [bytes |-> 0, cells |-> 0] /\ h_denied = {}

-----------------------------------------------------------------------------
(* BatchBuilder: construction and calls *)

BBIdle ==
  /\ source_ = NoBatch /\ row_count_ = 0 /\ modified_columns_ = EmptyMap
  /\ modified_keys_ = {} /\ built = NoBatch /\ bb_pc = "idle" /\ bb_calls = 0
  /\ bb_last = "none" /\ h_called = {} /\ h_added = {} /\ h_written = EmptyMap
  /\ h_src_heap = <<>>

\* BatchBuilder(const ColumnBatch& source) and BatchBuilder(size_t row_count)
BBConstruct ==
  \E n \in {0, MaxRows}, present \in SourceKeySets, with_source \in BOOLEAN :
    /\ (~with_source => present = {})
    /\ heap = SourceHeap(present, n)
    /\ h_src_heap = heap
    /\ source_ = IF with_source THEN SourceBatch(present, n) ELSE NoBatch
    /\ row_count_ = n
    /\ modified_columns_ = EmptyMap /\ modified_keys_ = {} /\ built = NoBatch
    /\ bb_pc = "open" /\ bb_calls = 0 /\ bb_last = "none"
    /\ h_called = {} /\ h_added = {} /\ h_written = EmptyMap

\* BatchBuilder::Set(row_index, key_id, value, registry)
Set(row_index, key_id, value, registry) ==
  LET pre == SetPrecheck(row_count_, row_index, key_id, value, registry)
      ew == EnsureWritable(source_, heap, modified_columns_, row_count_, key_id,
                           pre.col_type)
      sv == SetValue(ew.heap[ew.handle], row_index, value)
  IN
  /\ bb_pc = "open" /\ bb_calls < MaxCalls
  /\ bb_calls' = bb_calls + 1
  /\ h_called' = h_called \cup {key_id}
  /\ IF pre.err # "ok"
       THEN /\ bb_last' = pre.err
            /\ UNCHANGED <<heap, modified_columns_, modified_keys_, h_written>>
       ELSE /\ heap' = [ew.heap EXCEPT ![ew.handle] = sv.col]
            /\ modified_columns_' = Update(modified_columns_, key_id, ew.handle)
            /\ modified_keys_' = modified_keys_ \cup {key_id}
            /\ bb_last' = sv.err
            /\ h_written' = IF sv.err = "ok"
                              THEN Update(h_written, <<key_id, row_index>>, value)
                              ELSE h_written
  /\ UNCHANGED <<source_, row_count_, built, bb_pc, h_added, h_src_heap>>

\* BatchBuilder::AddColumn(key_id, column) with a column the caller just made
AddColumn(key_id, column) ==
  /\ bb_pc = "open" /\ bb_calls < MaxCalls
  /\ bb_calls' = bb_calls + 1
  /\ heap' = Append(heap, column)
  /\ modified_columns_' = Update(modified_columns_, key_id, Len(heap) + 1)
  /\ modified_keys_' = modified_keys_ \cup {key_id}
  /\ bb_last' = "ok"
  /\ h_called' = h_called \cup {key_id}
  /\ h_added' = h_added \cup {key_id}
  /\ UNCHANGED <<source_, row_count_, built, bb_pc, h_written, h_src_heap>>

\* BatchBuilder::Build(): the modified handles are moved out of the builder
Build ==
  /\ bb_pc = "open"
  /\ built' = MkBatch(row_count_,
                      BuildColumns(source_, modified_columns_, modified_keys_))
  /\ modified_columns_' = [k \in DOMAIN modified_columns_ |-> 0]
  /\ bb_pc' = "built"
  /\ bb_last' = "ok"
  /\ UNCHANGED <<heap, source_, row_count_, modified_keys_, bb_calls,
                 h_called, h_added, h_written, h_src_heap>>
  /\ UNCHANGED nonBBVars

SetAction ==
  \E row_index \in 0..MaxRows, key_id \in BuilderKeys, value \in SetValues,
     registry \in BOOLEAN :
    /\ row_index <= row_count_
    /\ Set(row_index, key_id, value, registry)
    /\ UNCHANGED nonBBVars

AddColumnAction ==
  \E key_id \in BuilderKeys, type \in {"ColF32"},
     len \in 0..MaxRows :
    /\ len \in {row_count_, row_count_ - 1}
    /\ AddColumn(key_id, AddedColumn(type, len))
    /\ UNCHANGED nonBBVars

InitBB == BBConstruct /\ CIdle /\ EIdle /\ GIdle /\ PIdle /\ TIdle /\ MIdle /\ KIdle /\ SFIdle

NextBB == SetAction \/ AddColumnAction \/ Build

SpecBB == InitBB /\ [][NextBB]_vars

-----------------------------------------------------------------------------
(* BatchBuilder: properties *)

SourceKeys == IF source_.none THEN {} ELSE DOMAIN source_.columns

\* C1: after Build, every key of the source that no Set/AddColumn call named
\* has, in the result, the very handle the source holds for it; a builder
\* that received no call at all returns the source's keys, handles and row
\* count.
C1_UntouchedColumnsShared ==
  (bb_pc = "built" /\ ~source_.none) =>
    /\ \A k \in SourceKeys \ h_called :
         k \in DOMAIN built.columns /\ built.columns[k] = source_.columns[k]
    /\ (bb_calls = 0 =>
          /\ built.columns = source_.columns
          /\ built.row_count = source_.row_count)

C1_Witness ==
  /\ bb_pc = "built" /\ bb_calls > 0
  /\ SourceKeys \ h_called # {}
  /\ SourceKeys \cap modified_keys_ # {}

C1_WitnessEmpty ==
  bb_pc = "built" /\ bb_calls = 0 /\ Cardinality(SourceKeys) = 3 /\ row_count_ > 0

\* keys of the source that successful Set calls (and no AddColumn) wrote
SetWrittenKeys ==
  {k \in SourceKeys \ h_added : \E r \in 0..MaxRows : <<k, r>> \in DOMAIN h_written}

\* C2: for a source key written by Set calls, the built column is a handle
\* other than the source's, the source column still has the contents it had
\* when the builder was created, and the built column reads the last written
\* value at every written row and the source's value at every other row.
C2_WrittenColumnsCopied ==
  /\ \A k \in SourceKeys :
       heap[source_.columns[k]] = h_src_heap[source_.columns[k]]
  /\ bb_pc = "built" =>
       \A k \in SetWrittenKeys :
         /\ built.columns[k] # source_.columns[k]
         /\ \A r \in 0..(row_count_ - 1) :
              GetValue(heap[built.columns[k]], r) =
                IF <<k, r>> \in DOMAIN h_written
                  THEN h_written[<<k, r>>]
                  ELSE GetValue(h_src_heap[source_.columns[k]], r)

C2_Witness ==
  /\ bb_pc = "built" /\ row_count_ >= 2
  /\ \E k \in SetWrittenKeys :
       /\ <<k, 1>> \in DOMAIN h_written /\ <<k, 0>> \notin DOMAIN h_written
       /\ ~IsNull(h_written[<<k, 1>>])
       /\ GetValue(heap[built.columns[k]], 1) # GetValue(heap[source_.columns[k]], 1)

-----------------------------------------------------------------------------
(* PlanCompiler: the plans handed to Compile, and the call *)

IdNames == <<"n1", "n2", "n3", "n4", "n5", "n6">>
GHOST_ID == "ghost"
SOURCER_OP == Op("core:", "sourcer")
BOGUS_OP == Op("", "bogus")

\* the inputs a node of an n-node plan may list
InputChoices(n) ==
  {<<>>, <<GHOST_ID>>, <<IdNames[1], IdNames[2]>>}
    \cup {<<IdNames[j]>> : j \in 1..n}

\* where a plan carries an unknown op and an experimental op (0 = nowhere)
OpFlaws(n) ==
  {[bogus |-> 0, exp |-> 0], [bogus |-> 1, exp |-> n]}
    \cup {[bogus |-> i, exp |-> 0] : i \in 1..n}
    \cup {[bogus |-> 0, exp |-> i] : i \in 1..n}

StructuralPlan(n, inputs, dup, flaw, env) ==
  Plan(env,
       [i \in 1..n |->
          PlanNode(IF dup /\ i = n THEN IdNames[1] ELSE IdNames[i],
                   IF flaw.bogus = i THEN BOGUS_OP
                   ELSE IF flaw.exp = i THEN EXPERIMENTAL_OP ELSE SOURCER_OP,
                   inputs[i], EmptyMap)])

\* SetComplexityBudget with a node-count limit below the largest plan
TightBudget == BudgetSet(ComplexityBudget(MaxNodes - 1, 0, 0, 0))

CompilerSetups ==
  {[budget |-> NoBudgetSet, enabled |-> TRUE],
   [budget |-> TightBudget, enabled |-> TRUE],
   [budget |-> TightBudget, enabled |-> FALSE]}

\* a caller holding a plan, a default CompiledPlan and an empty error string
CompileReady(p, setup) ==
  /\ plan = p
  /\ budget_ = setup.budget
  /\ complexity_check_enabled_ = setup.enabled
  /\ compiled = DefaultCompiledPlan /\ error = NoError /\ c_pc = "ready"
  /\ h_phases = <<>>

\* compiler.Compile(plan, compiled, &error)
CompileAction ==
  /\ c_pc = "ready"
  /\ LET r == Compile(plan, budget_, complexity_check_enabled_, compiled, error)
     IN /\ compiled' = r.out
        /\ error' = r.error
        /\ h_phases' = r.phases
        /\ c_pc' = IF r.ok THEN "ok" ELSE "failed"
  /\ UNCHANGED <<plan, budget_, complexity_check_enabled_>>
  /\ UNCHANGED nonCVars

InitCompile ==
  /\ heap = <<>> /\ BBIdle /\ EIdle /\ GIdle /\ PIdle /\ TIdle /\ MIdle /\ KIdle /\ SFIdle
  /\ \E n \in 0..MaxNodes, dup \in BOOLEAN, env \in {"dev", "prod"},
        setup \in CompilerSetups :
       \E flaw \in OpFlaws(n) :
         \E inputs \in [1..n -> InputChoices(n)] :
           /\ (dup => n >= 2)
           /\ CompileReady(StructuralPlan(n, inputs, dup, flaw, env), setup)

NextCompile == CompileAction

SpecCompile == InitCompile /\ [][NextCompile]_vars

-----------------------------------------------------------------------------
(* PlanCompiler: properties *)

\* the edges input -> node of a plan
EdgeSet(nodes) ==
  UNION {{<<nodes[i].inputs[j], nodes[i].id>> : j \in 1..Len(nodes[i].inputs)} :
           i \in 1..Len(nodes)}

\* what is reached from S along one to `steps` edges
RECURSIVE ReachableFrom(_, _, _)
ReachableFrom(E, S, steps) ==
  IF steps = 0 THEN {}
  ELSE LET nxt == {e[2] : e \in {d \in E : d[1] \in S}}
       IN nxt \cup ReachableFrom(E, nxt, steps - 1)

\* a cycle: some node reaches itself (a self-loop is a cycle of one edge)
HasCycle(nodes) ==
  \E id \in NodeIds(nodes) :
    id \in ReachableFrom(EdgeSet(nodes), {id}, Len(nodes))

HasUnknownInput(nodes) ==
  \E e \in EdgeSet(nodes) : e[1] \notin NodeIds(nodes)

Positions(order, id) == {j \in 1..Len(order) : order[j] = id}

\* C6: for every plan Compile accepts, topo_order holds every node id of the
\* plan exactly once and nothing else, and every id a node lists in inputs
\* stands at an earlier position than the node; a plan with a cycle, a
\* self-loop or an input id naming no node is never accepted.
C6_TopoOrderSound ==
  LET nodes == plan.nodes
      order == compiled.topo_order
  IN /\ c_pc = "ok" =>
          /\ Len(order) = Len(nodes)
          /\ \A i \in 1..Len(nodes) :
               /\ Cardinality(Positions(order, nodes[i].id)) = 1
               /\ \A j \in 1..Len(nodes[i].inputs) :
                    \E a \in Positions(order, nodes[i].inputs[j]) :
                      \A b \in Positions(order, nodes[i].id) : a < b
     /\ (HasCycle(nodes) \/ HasUnknownInput(nodes)) => c_pc # "ok"

\* an accepted three-node plan with a two-input node, listed by the plan in
\* an order that is not topological
C6_Witness ==
  /\ c_pc = "ok"
  /\ Len(plan.nodes) >= 3
  /\ \E i \in 1..Len(plan.nodes) : Len(plan.nodes[i].inputs) = 2
  /\ compiled.topo_order # [i \in 1..Len(plan.nodes) |-> plan.nodes[i].id]

\* a rejected plan whose only flaw is a cycle through two nodes
C6_WitnessCycle ==
  /\ c_pc = "failed"
  /\ HasCycle(plan.nodes) /\ ~HasUnknownInput(plan.nodes)
  /\ \A i \in 1..Len(plan.nodes) : plan.nodes[i].inputs # <<plan.nodes[i].id>>
  /\ error.msg = "Plan contains a cycle"

PhaseOrder ==
  <<"ValidateNodeIds", "TopologicalSort", "ValidateOps", "ValidatePlanEnv",
    "ValidateComplexity">>

\* the verdict of one phase taken on its own
PhaseResult(phase, p) ==
  CASE phase = "ValidateNodeIds" -> ValidateNodeIds(p)
    [] phase = "TopologicalSort" ->
         [ok |-> TopologicalSort(p).ok, error |-> TopologicalSort(p).error]
    [] phase = "ValidateOps" -> ValidateOps(p)
    [] phase = "ValidatePlanEnv" -> ValidatePlanEnv(p)
    [] phase = "ValidateComplexity" ->
         [ok |-> ValidateComplexity(p, budget_, complexity_check_enabled_).ok,
          error |-> ValidateComplexity(p, budget_, complexity_check_enabled_).error]

ViolatedPhases(p) ==
  {i \in 1..Len(PhaseOrder) : ~PhaseResult(PhaseOrder[i], p).ok}

\* C10: Compile enters its phases in the order unique ids, topological sort,
\* known ops, environment gate, complexity budget and stops at the first
\* that fails: it succeeds iff no phase is violated, a plan violating
\* several phases gets the error of the earliest violated one, no later
\* phase is entered, and on failure the caller's CompiledPlan is unwritten.
C10_FirstFailingPhase ==
  LET bad == ViolatedPhases(plan)
      first == CHOOSE i \in bad : \A j \in bad : i <= j
  IN c_pc \in {"ok", "failed"} =>
       /\ (c_pc = "ok") <=> (bad = {})
       /\ bad = {} => h_phases = PhaseOrder /\ error = NoError
       /\ bad # {} =>
            /\ error = PhaseResult(PhaseOrder[first], plan).error
            /\ h_phases = SubSeq(PhaseOrder, 1, first)
            /\ compiled = DefaultCompiledPlan

\* a rejected non-empty plan that violates an early and a later phase
C10_Witness ==
  /\ c_pc = "failed"
  /\ Cardinality(ViolatedPhases(plan)) >= 3
  /\ 1 \notin ViolatedPhases(plan)
  /\ 5 \in ViolatedPhases(plan)

-----------------------------------------------------------------------------
(* Executor: the plans that are run, and Execute *)

\* n1 sourcer -> n2 features -> n3 model -> n4 score_formula
ChainNodes(k, keys, sf) ==
  <<PlanNode(IdNames[1], SOURCER_OP, <<>>, k),
    PlanNode(IdNames[2], Op("core:", "features"), <<IdNames[1]>>, keys),
    PlanNode(IdNames[3], Op("core:", "model"), <<IdNames[2]>>, EmptyMap),
    PlanNode(IdNames[4], Op("core:", "score_formula"), <<IdNames[3]>>, sf)>>

\* n1, n2 sourcers -> n3 merge -> n4 features
MergeNodes(k, keys, dedup) ==
  <<PlanNode(IdNames[1], SOURCER_OP, <<>>, k),
    PlanNode(IdNames[2], SOURCER_OP, <<>>, "k" :> JNum(1)),
    PlanNode(IdNames[3], Op("core:", "merge"), <<IdNames[1], IdNames[2]>>, dedup),
    PlanNode(IdNames[4], Op("core:", "features"), <<IdNames[3]>>, keys)>>

\* n1 sourcer -> n2 a guest-module op -> n3 model
GuestNodes(k, guest_op) ==
  <<PlanNode(IdNames[1], SOURCER_OP, <<>>, k),
    PlanNode(IdNames[2], guest_op, <<IdNames[1]>>, EmptyMap),
    PlanNode(IdNames[3], Op("core:", "model"), <<IdNames[2]>>, EmptyMap)>>

SourcerParams ==
  {"k" :> JNum(n) : n \in {0, 1, MaxRows}} \cup {"k" :> JStr("x")}

FeaturesParams ==
  {EmptyMap, "keys" :> JStrArr("a")}
    \cup {"keys" :> JArr(ks) :
            ks \in {<<FEAT_FRESHNESS>>, <<CAND_CANDIDATE_ID>>, <<DEBUG_NODE_TIMINGS>>,
                    <<FEAT_EMBEDDING>>, <<FEAT_FRESHNESS, SCORE_ML>>}}

ScoreFormulaParams ==
  {EmptyMap,
   "output_key_id" :> JNum(CAND_CANDIDATE_ID),
   "expr" :> JExpr("const", F32_SCALE \div 2),
   ("output_key_id" :> JNum(SCORE_ADJUSTED)) @@ ("expr" :> JExpr("signal", CAND_CANDIDATE_ID))}

MergeParams == {EmptyMap, "dedup" :> JStr("max_base")}

Reverse(s) == [i \in 1..Len(s) |-> s[Len(s) + 1 - i]]

\* the plans of the execution specification: a prefix of one of the three
\* pipelines, listed by the plan in pipeline order or back to front
ExecPlans ==
  LET pipelines ==
        {ChainNodes(k, keys, sf) :
           k \in SourcerParams, keys \in FeaturesParams, sf \in ScoreFormulaParams}
        \cup {MergeNodes(k, keys, dedup) :
                k \in SourcerParams, keys \in FeaturesParams, dedup \in MergeParams}
        \cup {GuestNodes(k, guest_op) :
                k \in SourcerParams, guest_op \in {Op("js:", "module"), NJS_OP}}
      prefixes ==
        UNION {{SubSeq(nodes, 1, len) : len \in 0..Len(nodes)} : nodes \in pipelines}
  IN {Plan("dev", nodes) : nodes \in prefixes \cup {Reverse(s) : s \in prefixes}}

\* Execute entered: outputs is empty and the loop stands at the first node; an
\* empty topo_order goes straight to the final return
ExecuteBegin ==
  /\ c_pc = "ok" /\ e_pc = "idle"
  /\ outputs' = EmptyMap
  /\ h_runs' = <<>>
  /\ IF ExecOrder(compiled) = <<>>
       THEN e_pc' = "returned" /\ e_result' = EmptyBatch /\ e_idx' = 0
       ELSE e_pc' = "running" /\ e_result' = NoBatch /\ e_idx' = 1
  /\ UNCHANGED <<heap, e_exception, bbVars, cVars, gVars, pVars, tVars, mVars, kVars, sfVars>>

\* one iteration of the loop of Execute, and the final return after the last
ExecuteNode ==
  /\ e_pc = "running"
  /\ LET order == ExecOrder(compiled)
         node_id == order[e_idx]
         spec == NodeById(compiled.plan, node_id)
         input == GatherInput(spec.node, outputs)
         r == RunOp(spec.node.op, heap, input, spec.node.params)
         outs == Update(outputs, node_id, r.batch)
     IN IF spec.none
          THEN /\ error' = Error("Node not found", node_id, NoOp)
               /\ e_pc' = "returned" /\ e_result' = EmptyBatch
               /\ UNCHANGED <<heap, outputs, e_idx, e_exception, h_runs, trace_log>>
        ELSE IF ~HasOp(spec.node.op)
          THEN /\ error' = Error("Unknown op", "", spec.node.op)
               /\ e_pc' = "returned" /\ e_result' = EmptyBatch
               /\ UNCHANGED <<heap, outputs, e_idx, e_exception, h_runs, trace_log>>
        ELSE /\ h_runs' = Append(h_runs, [node |-> node_id, input |-> input,
                                          stored |-> DOMAIN outputs])
             /\ trace_log' =
                  LET started == LogNodeStart(trace_log, enabled_, node_id, spec.node.op)
                  IN IF r.threw THEN started
                     ELSE LogNodeEnd(started, enabled_, node_id, spec.node.op,
                                     input.row_count, r.batch.row_count)
             /\ IF r.threw
                  THEN /\ e_pc' = "threw" /\ e_exception' = r.what
                       /\ UNCHANGED <<heap, outputs, e_idx, e_result, error>>
                  ELSE /\ heap' = r.heap
                       /\ outputs' = outs
                       /\ IF e_idx = Len(order)
                            THEN /\ e_pc' = "returned"
                                 /\ e_result' = outs[order[Len(order)]]
                                 /\ e_idx' = e_idx
                            ELSE /\ e_idx' = e_idx + 1
                                 /\ UNCHANGED <<e_pc, e_result>>
                       /\ UNCHANGED <<e_exception, error>>
  /\ UNCHANGED <<plan, budget_, complexity_check_enabled_, compiled, c_pc, h_phases>>
  /\ UNCHANGED <<bbVars, gVars, pVars, enabled_, mVars, kVars, sfVars>>

InitExec ==
  /\ heap = <<>> /\ BBIdle /\ EIdle /\ GIdle /\ PIdle /\ TIdle /\ MIdle /\ KIdle /\ SFIdle
  /\ \E p \in ExecPlans :
       CompileReady(p, [budget |-> NoBudgetSet, enabled |-> TRUE])

NextExec == CompileAction \/ ExecuteBegin \/ ExecuteNode

SpecExec == InitExec /\ [][NextExec]_vars

-----------------------------------------------------------------------------
(* Executor: properties *)

\* the batches node outputs hold: every stored output and the returned batch
OutputBatches ==
  {outputs[id] : id \in DOMAIN outputs} \cup (IF e_result.none THEN {} ELSE {e_result})

\* C3: after executing a compiled plan, every column a node's output batch
\* holds under a registered key-id has the column type the registry declares
\* for that key, so no non-null cell disagrees with its key's declared type.
C3_OutputColumnsMatchRegistry ==
  \A batch \in OutputBatches :
    \A key_id \in DOMAIN batch.columns :
      GetById(key_id) # "none" =>
        heap[batch.columns[key_id]].type = KeyTypeToColumnType(GetById(key_id))

\* the run record of position i, and the node it ran
RunNode(i) == NodeById(compiled.plan, h_runs[i].node).node

\* C7: Execute runs the nodes one at a time in topo_order, each exactly once;
\* when a node's operator starts, the output of every one of its inputs is
\* already stored; the batch returned is the output of the last node of
\* topo_order, and an empty plan returns a 0-row batch.
C7_RunsInTopoOrder ==
  LET order == compiled.topo_order
  IN /\ Len(h_runs) <= Len(order)
     /\ \A i \in 1..Len(h_runs) :
          /\ h_runs[i].node = order[i]
          /\ \A j \in 1..Len(RunNode(i).inputs) :
               RunNode(i).inputs[j] \in h_runs[i].stored
          /\ h_runs[i].stored = {order[j] : j \in 1..(i - 1)}
     /\ (e_pc = "returned" /\ error = NoError) =>
          /\ Len(h_runs) = Len(order)
          /\ DOMAIN outputs = {order[j] : j \in 1..Len(order)}
          /\ IF order = <<>>
               THEN e_result.row_count = 0 /\ e_result.columns = EmptyMap
               ELSE e_result = outputs[order[Len(order)]]

\* a four-node plan listed back to front, run to its return
C7_Witness ==
  /\ e_pc = "returned" /\ error = NoError
  /\ Len(compiled.topo_order) >= 4
  /\ compiled.topo_order # [i \in 1..Len(plan.nodes) |-> plan.nodes[i].id]
  /\ e_result.row_count > 0

\* an empty plan, run to its return
C7_WitnessEmpty ==
  e_pc = "returned" /\ plan.nodes = <<>> /\ e_result = EmptyBatch

RECURSIVE SumRowCounts(_, _, _)
SumRowCounts(outs, ids, j) ==
  IF j > Len(ids) THEN 0
  ELSE outs[ids[j]].row_count + SumRowCounts(outs, ids, j + 1)

\* C8: the input batch handed to a node with several inputs is the row-wise
\* concatenation of the outputs of all its input nodes: its row count is the
\* sum of their row counts.
C8_MultiInputConcatenated ==
  \A i \in 1..Len(h_runs) :
    Len(RunNode(i).inputs) >= 2 =>
      h_runs[i].input.row_count = SumRowCounts(outputs, RunNode(i).inputs, 1)

\* C9: when a node's operator fails during Execute, Execute returns to its
\* caller with an error value naming the node id, the op and the underlying
\* error; no output is stored for the failed node and no later node is run.
C9_OperatorFailureReported ==
  e_exception # "" =>
    LET failed == RunNode(Len(h_runs))
    IN /\ e_pc = "returned"
       /\ error.id = failed.id /\ error.op = failed.op /\ error.msg # ""
       /\ failed.id \notin DOMAIN outputs
       /\ Len(h_runs) = e_idx

-----------------------------------------------------------------------------
(* Guest-module runner: an invocation of NjsRunner::Run *)

\* the writer calls a guest makes: ctx.batch.writeF32 / writeI64, and
\* AllocateF32Vec from a column function
WriterCalls ==
  {[key_id |-> k, key_type |-> t, dim |-> 0] :
     k \in {SCORE_ML, SCORE_FINAL, SCORE_BASE, CAND_CANDIDATE_ID}, t \in {"F32", "I64"}}
    \cup {[key_id |-> FEAT_EMBEDDING, key_type |-> "F32Vec", dim |-> 2]}

\* meta.writes of the modules run
MetaWrites ==
  {{}, {SCORE_ML}, {SCORE_ML, SCORE_FINAL, CAND_CANDIDATE_ID, FEAT_EMBEDDING}}

\* meta.budget of the modules run: room for no, one, or several columns
MetaBudgets ==
  {NjsBudget(4 * MaxRows, 2 * MaxRows), NjsBudget(12 * MaxRows, MaxRows),
   NjsBudget(12 * MaxRows, 2 * MaxRows), NjsBudget(1048576, 100000)}

\* runner.Run(ctx, input, params) about to be entered
InitGuest ==
  /\ BBIdle /\ CIdle /\ EIdle /\ PIdle /\ TIdle /\ MIdle /\ KIdle /\ SFIdle
  /\ \E n \in {0, MaxRows}, present \in {{}, {CAND_CANDIDATE_ID, SCORE_BASE}} :
       /\ heap = SourceHeap(present, n)
       /\ g_input = SourceBatch(present, n)
  /\ allowed_writes_ \in MetaWrites
  /\ njs_budget \in MetaBudgets
  /\ g_registry \in BOOLEAN
  /\ g_module \in {"module.njs", ""}
  /\ policy_ = NoPolicy /\ g_meta = NjsMeta("writer", "1.0", FALSE)
  /\ js_ctx = JsContext(FALSE, "", 0, 0, FALSE) /\ g_invocations = 0
  /\ io_last = NoRead /\ h_opened = <<>>
  /\ allocated_columns_ = <<>> /\ g_pc = "ready" /\ g_result = NoBatch
  /\ g_error = "" /\ g_calls = 0 /\ g_last = NoCall
  /\ h_accepted = [bytes |-> 0, cells |-> 0] /\ h_denied = {}

\* the cap Run sets on the instruction counter (1000000 in the source, scaled)
MAX_INSTRUCTIONS == 3

\* Run up to the evaluation of the module: the parameter check, the 0-row
\* return, the fresh context and the reset of the instruction counter
NjsRunBegin ==
  /\ g_pc = "ready"
  /\ IF g_module = ""
       THEN g_pc' = "threw" /\ g_error' = "njs node requires 'module' param"
            /\ UNCHANGED <<g_result, js_ctx>>
     ELSE IF g_input.row_count = 0
       THEN g_pc' = "returned" /\ g_result' = g_input
            /\ UNCHANGED <<g_error, js_ctx>>
     ELSE /\ g_pc' = "evaluating"
          /\ js_ctx' = [js_ctx EXCEPT !.instruction_count = 0,
                                      !.max_instructions = MAX_INSTRUCTIONS,
                                      !.interrupted = FALSE]
          /\ UNCHANGED <<g_result, g_error>>
  /\ g_invocations' = g_invocations + 1
  /\ UNCHANGED <<heap, g_input, allowed_writes_, g_registry, njs_budget,
                 allocated_columns_, g_module, g_calls, g_last, h_accepted, h_denied,
                 policy_, g_meta, io_last, h_opened>>
  /\ UNCHANGED nonGVars

\* the module evaluated without error: meta parsed, a fresh budget and
\* BatchContext, the IO switch set from meta and policy, runBatch called
ModuleEvaluated ==
  /\ g_pc = "evaluating"
  /\ LET io_allowed == /\ g_meta.csv_read
                       /\ policy_.set
                       /\ IsIoCsvReadAllowed(policy_, g_meta.name, g_meta.version)
     IN js_ctx' = [js_ctx EXCEPT !.io_enabled = io_allowed,
                                 !.csv_assets_dir =
                                    IF io_allowed THEN policy_.csv_assets_dir_ ELSE ""]
  /\ njs_budget' = [njs_budget EXCEPT !.bytes_written = 0, !.cells_written = 0,
                                      !.io_bytes_read = 0, !.io_rows_read = 0]
  /\ allocated_columns_' = <<>>
  /\ g_pc' = "running"
  /\ UNCHANGED <<heap, g_input, allowed_writes_, g_registry, g_module, g_result,
                 g_error, g_calls, g_last, h_accepted, h_denied, policy_, g_meta,
                 g_invocations, io_last, h_opened>>
  /\ UNCHANGED nonGVars

\* one writer call of the guest; an error it does not catch ends runBatch with
\* an exception, which Run rethrows
GuestWriterCall ==
  /\ g_pc = "running" /\ g_calls < MaxCalls
  /\ \E call \in WriterCalls, caught \in BOOLEAN :
       LET r == Allocate(g_input, heap, allowed_writes_, g_registry, njs_budget,
                         allocated_columns_, call.key_id, call.key_type, call.dim)
       IN /\ heap' = r.heap
          /\ njs_budget' = r.budget
          /\ allocated_columns_' = r.allocated
          /\ g_last' = [key_id |-> call.key_id, key_type |-> call.key_type,
                        err |-> r.err, caught |-> caught, bytes |-> r.bytes,
                        cells |-> r.cells, budget_before |-> njs_budget,
                        allocated_before |-> allocated_columns_,
                        heap_before |-> Len(heap)]
          /\ h_accepted' = IF r.err = "ok"
                             THEN [bytes |-> h_accepted.bytes + r.bytes,
                                   cells |-> h_accepted.cells + r.cells]
                             ELSE h_accepted
          /\ h_denied' = IF r.err = "WriteNotDeclared"
                           THEN h_denied \cup {call.key_id} ELSE h_denied
          /\ IF r.err # "ok" /\ ~caught
               THEN g_pc' = "threw" /\ g_error' = r.err
               ELSE UNCHANGED <<g_pc, g_error>>
  /\ g_calls' = g_calls + 1
  /\ UNCHANGED <<g_input, allowed_writes_, g_registry, g_module, g_result>>
  /\ UNCHANGED ioVars
  /\ UNCHANGED nonGVars

\* runBatch returns: CommitTrackedWrites, Commit, Build
GuestReturn ==
  /\ g_pc = "running"
  /\ \E fill \in {0, 42 * F32_SCALE} :
       /\ heap' = WriteRaw(heap, allocated_columns_, 1, fill)
       /\ g_result' = MkBatch(g_input.row_count,
                              BuildColumns(g_input,
                                           Commit(allocated_columns_, 1, EmptyMap),
                                           DOMAIN Commit(allocated_columns_, 1, EmptyMap)))
  /\ allocated_columns_' = <<>>
  /\ g_pc' = "returned"
  /\ UNCHANGED <<g_input, allowed_writes_, g_registry, njs_budget, g_module,
                 g_error, g_calls, g_last, h_accepted, h_denied>>
  /\ UNCHANGED ioVars
  /\ UNCHANGED nonGVars

NextGuest == NjsRunBegin \/ ModuleEvaluated \/ GuestWriterCall \/ GuestReturn

SpecGuest == InitGuest /\ [][NextGuest]_vars

-----------------------------------------------------------------------------
(* Guest-module runner: properties *)

\* C4: a guest module that calls a column writer for a key-id outside its
\* meta.writes makes the invocation fail with WriteNotDeclared, and the output
\* holds no column of the module for such a key: for every key outside
\* meta.writes the output handle is the input's, or the key is absent if the
\* input lacked it.
C4_UndeclaredWriteFailsInvocation ==
  /\ g_pc = "threw" /\ h_denied # {} => g_error = "WriteNotDeclared"
  /\ g_pc = "returned" =>
       /\ h_denied = {}
       /\ \A key_id \in DOMAIN kAllKeys \ allowed_writes_ :
            IF key_id \in DOMAIN g_input.columns
              THEN /\ key_id \in DOMAIN g_result.columns
                   /\ g_result.columns[key_id] = g_input.columns[key_id]
              ELSE key_id \notin DOMAIN g_result.columns

\* the part of C4 about the output alone
OutputKeepsUndeclaredKeys ==
  g_pc = "returned" =>
    \A key_id \in DOMAIN kAllKeys \ allowed_writes_ :
      IF key_id \in DOMAIN g_input.columns
        THEN /\ key_id \in DOMAIN g_result.columns
             /\ g_result.columns[key_id] = g_input.columns[key_id]
        ELSE key_id \notin DOMAIN g_result.columns

\* C5: the running totals never exceed max_write_bytes and max_write_cells; a
\* writer call that would push either total above its limit fails with
\* BudgetExceeded before anything is allocated, leaving both totals and the
\* allocated columns unchanged; the totals equal the sum of the accepted
\* allocations.
C5_BudgetNeverExceeded ==
  /\ njs_budget.bytes_written <= njs_budget.max_write_bytes
  /\ njs_budget.cells_written <= njs_budget.max_write_cells
  /\ njs_budget.bytes_written = h_accepted.bytes
  /\ njs_budget.cells_written = h_accepted.cells
  /\ (g_last.err \in {"ok", "BudgetExceeded"} =>
        (g_last.err = "BudgetExceeded") <=>
          \/ g_last.budget_before.bytes_written + g_last.bytes > njs_budget.max_write_bytes
          \/ g_last.budget_before.cells_written + g_last.cells > njs_budget.max_write_cells)
  /\ (g_last.err = "BudgetExceeded" /\ g_pc # "returned") =>
        /\ njs_budget = g_last.budget_before
        /\ allocated_columns_ = g_last.allocated_before
        /\ Len(heap) = g_last.heap_before

\* a second writer call refused on the cell budget after a first was accepted
C5_Witness ==
  /\ g_last.err = "BudgetExceeded"
  /\ njs_budget.cells_written > 0
  /\ g_last.budget_before.bytes_written + g_last.bytes <= njs_budget.max_write_bytes
  /\ g_last.budget_before.cells_written + g_last.cells > njs_budget.max_write_cells

-----------------------------------------------------------------------------
(* Known ops: ValidateOps against the registry *)

\* C11: every node op of a plan that Compile accepts is known to the operator
\* registry, so executing a compiled plan never fails with an unknown-op
\* error; an op the registry provides (the guest-module op included) is not
\* rejected as unknown.
C11_AcceptedOpsRegistered ==
  /\ c_pc = "ok" => \A i \in 1..Len(plan.nodes) : HasOp(plan.nodes[i].op)
  /\ error.msg # "Unknown op"
  /\ (c_pc = "failed" /\ error.msg = "Unknown op type") => ~HasOp(error.op)

\* the first half alone: an accepted plan executed up to an unknown-op error
ExecuteNeverUnknownOp == error.msg # "Unknown op"

\* the second half alone: a registered op rejected by Compile as unknown
RegisteredOpNotRejected ==
  (c_pc = "failed" /\ error.msg = "Unknown op type") => ~HasOp(error.op)

-----------------------------------------------------------------------------
(* Plan environment: ParsePlan, then Compile *)

\* the node lists of the documents parsed: a sourcer alone or followed by a
\* second node, or an experimental node alone
EnvNodeLists ==
  {<<PlanNode(IdNames[1], SOURCER_OP, <<>>, EmptyMap)>>,
   <<PlanNode(IdNames[1], EXPERIMENTAL_OP, <<>>, EmptyMap)>>}
    \cup {<<PlanNode(IdNames[1], SOURCER_OP, <<>>, EmptyMap),
            PlanNode(IdNames[2], op, <<IdNames[1]>>, EmptyMap)>> :
            op \in {SOURCER_OP, EXPERIMENTAL_OP, Op("js:", "module"), BOGUS_OP}}

\* the trace_key of the last node of a document
TraceKeys == {NoTraceKey, TraceKey(3, TRUE), TraceKey(3, FALSE), TraceKey(65, TRUE)}

\* the meta of the documents parsed
EnvStrings == {"prod", "dev", "test", "Prod", "PROD", "production", "staging", ""}
VALID_ENVS == {"prod", "dev", "test"}

EnvPlanJsons ==
  {PlanJson(meta.has_meta, meta.has_env, meta.env,
            [i \in 1..Len(nodes) |->
               [node |-> nodes[i],
                trace_key |-> IF i = Len(nodes) THEN tk ELSE NoTraceKey]]) :
     meta \in {[has_meta |-> FALSE, has_env |-> FALSE, env |-> ""],
               [has_meta |-> TRUE, has_env |-> FALSE, env |-> ""]}
              \cup {[has_meta |-> TRUE, has_env |-> TRUE, env |-> e] : e \in EnvStrings},
     nodes \in EnvNodeLists, tk \in TraceKeys}

\* a document and the Plan object it is parsed into: default-constructed, or
\* one whose meta.env the caller has set
InitEnv ==
  /\ heap = <<>> /\ BBIdle /\ EIdle /\ GIdle /\ TIdle /\ MIdle /\ KIdle /\ SFIdle
  /\ plan_json \in EnvPlanJsons /\ p_pc = "json"
  /\ plan \in {Plan(env, <<>>) : env \in VALID_ENVS}
  /\ budget_ = NoBudgetSet /\ complexity_check_enabled_ = TRUE
  /\ compiled = DefaultCompiledPlan /\ error = NoError /\ c_pc = "idle"
  /\ h_phases = <<>>

\* ParsePlan(json, plan, &error); a caller that got true goes on to Compile
ParsePlanAction ==
  /\ p_pc = "json"
  /\ LET r == ParsePlan(plan_json, plan, error)
     IN /\ plan' = r.out
        /\ error' = r.error
        /\ p_pc' = IF r.ok THEN "parsed" ELSE "failed"
        /\ c_pc' = IF r.ok THEN "ready" ELSE c_pc
  /\ UNCHANGED <<plan_json, budget_, complexity_check_enabled_, compiled, h_phases>>
  /\ UNCHANGED <<heap, bbVars, eVars, gVars, tVars, mVars, kVars, sfVars>>

NextEnv == ParsePlanAction \/ CompileAction

SpecEnv == InitEnv /\ [][NextEnv]_vars

\* the first node of the plan whose registered spec is experimental, 0 if none
FirstExperimental(p) ==
  LET exp == {i \in 1..Len(p.nodes) : GetSpec(p.nodes[i].op) = "kExperimental"}
  IN IF exp = {} THEN 0 ELSE CHOOSE i \in exp : \A j \in exp : i <= j

\* C12: when plan.meta.env is prod, Compile succeeds only if every node's op
\* has stability stable; a prod plan that uses an experimental op fails with an
\* error naming the node id, the op and the namespace; with env dev or test the
\* plan is not rejected by this gate.
C12_ProdOnlyStableOps ==
  /\ (c_pc = "ok" /\ plan.env = "prod") =>
       \A i \in 1..Len(plan.nodes) : GetSpec(plan.nodes[i].op) = "kStable"
  /\ (c_pc \in {"ok", "failed"} /\ plan.env = "prod" /\ FirstExperimental(plan) # 0
        /\ ValidateOps(plan).ok) =>
       LET node == plan.nodes[FirstExperimental(plan)]
       IN /\ c_pc = "failed"
          /\ error.id = node.id /\ error.op = node.op
          /\ error.ns = NamespacePath(node.op)
  /\ plan.env # "prod" => error.msg # "Production plans cannot use experimental nodes"

\* the parts of C12 about experimental ops alone
ExperimentalRejectedInProd ==
  /\ (c_pc = "ok" /\ plan.env = "prod") => FirstExperimental(plan) = 0
  /\ (c_pc \in {"ok", "failed"} /\ plan.env = "prod" /\ FirstExperimental(plan) # 0
        /\ ValidateOps(plan).ok) =>
       LET node == plan.nodes[FirstExperimental(plan)]
       IN /\ c_pc = "failed"
          /\ error.id = node.id /\ error.op = node.op
          /\ error.ns = NamespacePath(node.op)
  /\ plan.env # "prod" => error.msg # "Production plans cannot use experimental nodes"

\* C13: ParsePlan stores the document's meta.env in plan.meta.env (dev when
\* meta or meta.env is absent) and fails, producing no plan, for every
\* meta.env string other than exactly prod, dev or test.
C13_EnvParsedAndValidated ==
  /\ p_pc = "parsed" =>
       plan.env = (IF plan_json.has_meta /\ plan_json.has_env
                     THEN plan_json.env ELSE "dev")
  /\ (p_pc \in {"parsed", "failed"} /\ plan_json.has_meta /\ plan_json.has_env
        /\ plan_json.env \notin VALID_ENVS) =>
       p_pc = "failed"

-----------------------------------------------------------------------------
(* Complexity budget: Compile over chains, fan-outs and fan-ins *)

\* node ids n1, n2, ...
NodeName(i) == IF i <= Len(IdNames) THEN IdNames[i] ELSE "n" \o ToString(i)

\* n1 -> n2 -> ... -> nn
ChainPlan(n) ==
  Plan("dev", [i \in 1..n |->
                 PlanNode(NodeName(i), Op("core:", "features"),
                          IF i = 1 THEN <<>> ELSE <<NodeName(i - 1)>>, EmptyMap)])

\* n1 feeding every other node
FanOutPlan(n) ==
  Plan("dev", [i \in 1..n |->
                 PlanNode(NodeName(i), Op("core:", "features"),
                          IF i = 1 THEN <<>> ELSE <<NodeName(1)>>, EmptyMap)])

\* every other node feeding nn
FanInPlan(n) ==
  Plan("dev", [i \in 1..n |->
                 PlanNode(NodeName(i), Op("core:", "merge"),
                          IF i < n THEN <<>> ELSE [j \in 1..(n - 1) |-> NodeName(j)],
                          EmptyMap)])

\* plan sizes: small ones, and one past the default fan limits
WIDE == 18
PlanSizes == (1..MaxNodes) \cup {WIDE}

ComplexityPlans ==
  UNION {{ChainPlan(n), FanOutPlan(n), FanInPlan(n)} : n \in PlanSizes}

\* the budgets a caller sets: none, all limits unset, one hard limit, soft
\* limits alone, and a hard limit together with a soft limit
ComplexityBudgets ==
  {NoBudget}
    \cup UNION {{ComplexityBudget(l, 0, 0, 0), ComplexityBudget(0, l, 0, 0),
                 ComplexityBudget(0, 0, l, 0), ComplexityBudget(0, 0, 0, l)} :
                  l \in 1..2}
    \cup {SoftLimits(NoBudget, 1, 0), SoftLimits(NoBudget, 0, 10),
          SoftLimits(ComplexityBudget(2, 0, 0, 0), 1, 0)}

InitComplexity ==
  /\ heap = <<>> /\ BBIdle /\ EIdle /\ GIdle /\ PIdle /\ TIdle /\ MIdle /\ KIdle /\ SFIdle
  /\ \E p \in ComplexityPlans, enabled \in BOOLEAN,
        budget \in {NoBudgetSet} \cup {BudgetSet(b) : b \in ComplexityBudgets} :
       CompileReady(p, [budget |-> budget, enabled |-> enabled])

NextComplexity == CompileAction

SpecComplexity == InitComplexity /\ [][NextComplexity]_vars

\* the hard limits in force: those the caller set, else (2000, 120, 16, 16)
AppliedHardLimits ==
  IF budget_.set
    THEN <<budget_.value.node_count_hard, budget_.value.max_depth_hard,
           budget_.value.fanout_peak_hard, budget_.value.fanin_peak_hard>>
    ELSE <<2000, 120, 16, 16>>

\* the metrics of the plan, in the order of AppliedHardLimits
PlanMetrics ==
  LET metrics == ComputeComplexityMetrics(plan)
  IN <<metrics.node_count, metrics.max_depth, metrics.fanout_peak, metrics.fanin_peak>>

\* C14: with complexity checking enabled, a plan is rejected with
\* PlanTooComplex exactly when some hard limit that is set (non-zero) is
\* strictly exceeded by the plan's metric; a budget whose hard limits are all 0
\* never rejects, and with no budget set the limits (2000, 120, 16, 16) apply.
C14_HardLimitsEnforced ==
  (c_pc \in {"ok", "failed"} /\ complexity_check_enabled_) =>
    ((c_pc = "failed" /\ error.msg = "PLAN_TOO_COMPLEX")
       <=> \E i \in 1..4 : AppliedHardLimits[i] # 0
                            /\ PlanMetrics[i] > AppliedHardLimits[i])

\* no budget set, and a fan-out of 17 rejected against the default limit 16
C14_Witness ==
  /\ c_pc = "failed" /\ error.msg = "PLAN_TOO_COMPLEX"
  /\ ~budget_.set /\ complexity_check_enabled_
  /\ PlanMetrics[3] = WIDE - 1

\* a metric equal to its hard limit, accepted
C14_WitnessAtLimit ==
  /\ c_pc = "ok" /\ budget_.set /\ complexity_check_enabled_
  /\ \E i \in 1..4 : AppliedHardLimits[i] # 0 /\ PlanMetrics[i] = AppliedHardLimits[i]

\* the budget in force
AppliedBudget == IF budget_.set THEN budget_.value ELSE DefaultBudget

\* C15: when a soft limit (edge_count or the weighted score) is exceeded and no
\* hard limit is, compilation succeeds and a warning is emitted through the
\* tracer.
C15_SoftLimitWarns ==
  (c_pc \in {"ok", "failed"} /\ complexity_check_enabled_
     /\ HasWarnings(ComputeComplexityMetrics(plan), AppliedBudget)
     /\ CheckComplexityBudget(ComputeComplexityMetrics(plan), AppliedBudget)) =>
    /\ c_pc = "ok"
    /\ trace_log # <<>>

\* the part of C15 about the outcome alone: soft limits never fail Compile
SoftLimitNeverFails ==
  (c_pc \in {"ok", "failed"} /\ complexity_check_enabled_
     /\ HasWarnings(ComputeComplexityMetrics(plan), AppliedBudget)
     /\ CheckComplexityBudget(ComputeComplexityMetrics(plan), AppliedBudget)) =>
    c_pc = "ok"

-----------------------------------------------------------------------------
(* Guest-module IO: an invocation whose guest calls ctx.io.readCsv *)

\* NjsBudget with the IO limits of meta.budget
IoLimits(budget, max_bytes, max_rows) ==
  [budget EXCEPT !.max_io_read_bytes = max_bytes, !.max_io_read_rows = max_rows]

\* the policies an engine runs with: none, and allowlists that list the
\* module "reader" 1.0 or not
IoPolicies ==
  {NoPolicy}
    \cup {NjsPolicy(dir, entries) :
            dir \in {"njs/assets/csv"},
            entries \in {<<>>,
                         <<NjsPolicyEntry("reader", "1.0", TRUE)>>,
                         <<NjsPolicyEntry("reader", "", TRUE)>>,
                         <<NjsPolicyEntry("reader", "2.0", TRUE)>>,
                         <<NjsPolicyEntry("other", "1.0", TRUE)>>,
                         <<NjsPolicyEntry("reader", "1.0", FALSE),
                           NjsPolicyEntry("reader", "", TRUE)>>,
                         <<NjsPolicyEntry("other", "", TRUE),
                           NjsPolicyEntry("reader", "1.0", TRUE)>>}}

\* the IO limits of the modules run
IoBudgets ==
  {IoLimits(NjsBudget(1048576, 100000), b.bytes, b.rows) :
     b \in {[bytes |-> 0, rows |-> 0], [bytes |-> 0, rows |-> 5],
            [bytes |-> 8, rows |-> 5], [bytes |-> 12, rows |-> 1],
            [bytes |-> 100, rows |-> 100]}}

\* the resources a guest asks for
CsvResources ==
  {<<>>, <<"a">>, <<"a", "/", "b">>, <<"/", "a">>, <<"\\", "a">>,
   <<".", ".", "/", "a">>, <<"a", "/", ".", ".">>, <<"a", ".", ".", "b">>,
   <<"a", "\\", "b">>, <<".", "/", "a">>}

\* the files found at the paths opened: none, an empty file, a header alone,
\* a header with one row and with two rows
CsvFiles == {NoFile, CsvFile(<<>>), CsvFile(<<9>>), CsvFile(<<3, 3>>), CsvFile(<<3, 3, 3>>)}

InitIo ==
  /\ BBIdle /\ CIdle /\ EIdle /\ PIdle /\ TIdle /\ MIdle /\ KIdle /\ SFIdle
  /\ heap = SourceHeap({CAND_CANDIDATE_ID}, 1)
  /\ g_input = SourceBatch({CAND_CANDIDATE_ID}, 1)
  /\ allowed_writes_ = {} /\ g_registry = TRUE
  /\ njs_budget \in IoBudgets
  /\ policy_ \in IoPolicies
  /\ g_meta \in {NjsMeta("reader", "1.0", csv_read) : csv_read \in BOOLEAN}
  /\ g_module = "reader.njs"
  /\ js_ctx = JsContext(FALSE, "", 0, 0, FALSE) /\ g_invocations = 0
  /\ io_last = NoRead /\ h_opened = <<>>
  /\ allocated_columns_ = <<>> /\ g_pc = "ready" /\ g_result = NoBatch
  /\ g_error = "" /\ g_calls = 0 /\ g_last = NoCall
  /\ h_accepted = [bytes |-> 0, cells |-> 0] /\ h_denied = {}

\* one ctx.io.readCsv(resource) of the guest; without ctx.io the property
\* access fails inside the interpreter.  An error the guest does not catch
\* ends runBatch with an exception, which Run rethrows
GuestReadCsv ==
  /\ g_pc = "running" /\ g_calls < MaxCalls
  /\ \E resource \in CsvResources, file \in CsvFiles, caught \in BOOLEAN :
       LET r == JsIoReadCsv(js_ctx, njs_budget, resource, file)
       IN /\ njs_budget' = r.budget
          /\ io_last' = [resource |-> resource, file |-> file, err |-> r.err,
                         caught |-> caught,
                         opened |-> r.opened, row_count |-> r.row_count,
                         budget_before |-> njs_budget]
          /\ h_opened' = IF r.opened
                           THEN Append(h_opened, [dir |-> js_ctx.csv_assets_dir,
                                                  resource |-> resource])
                           ELSE h_opened
          /\ IF r.err # "ok" /\ ~caught
               THEN g_pc' = "threw" /\ g_error' = r.err
               ELSE UNCHANGED <<g_pc, g_error>>
  /\ g_calls' = g_calls + 1
  /\ UNCHANGED <<heap, g_input, allowed_writes_, g_registry, allocated_columns_,
                 g_module, g_result, g_last, h_accepted, h_denied, policy_, g_meta,
                 js_ctx, g_invocations>>
  /\ UNCHANGED nonGVars

NextIo == NjsRunBegin \/ ModuleEvaluated \/ GuestReadCsv \/ GuestReturn

SpecIo == InitIo /\ [][NextIo]_vars

\* the policy lists the module's name / holds an allowing entry for its
\* (name, version)
PolicyListsModule ==
  policy_.set /\ \E i \in 1..Len(policy_.entries_) : policy_.entries_[i].name = g_meta.name
PolicyAllowsModule ==
  policy_.set /\ \E i \in 1..Len(policy_.entries_) :
                   /\ policy_.entries_[i].name = g_meta.name
                   /\ policy_.entries_[i].version \in {"", g_meta.version}
                   /\ policy_.entries_[i].allow_io_csv_read

\* C16: ctx.io.readCsv is reachable from guest code only when meta declares
\* capabilities.io.csv_read = true and the policy allows csv reads for the
\* module's (name, version); a module not listed in the policy, or run with no
\* policy at all, gets no ctx.io and cannot read any file.
C16_IoOnlyWhenDeclaredAndAllowed ==
  /\ js_ctx.io_enabled => (g_meta.csv_read /\ PolicyAllowsModule)
  /\ h_opened # <<>> => (g_meta.csv_read /\ PolicyAllowsModule)
  /\ io_last.err = "ok" => (g_meta.csv_read /\ PolicyAllowsModule)
  /\ ~PolicyListsModule =>
       /\ ~js_ctx.io_enabled /\ h_opened = <<>>
       /\ io_last.err \in {"none", "IO capability not enabled for this module"}

\* a listed, allowed module that read a file
C16_Witness ==
  /\ js_ctx.io_enabled /\ io_last.err = "ok" /\ io_last.row_count > 0
  /\ Len(policy_.entries_) >= 2

\* an unlisted module that declared the capability and tried to read
C16_WitnessDenied ==
  /\ g_meta.csv_read /\ policy_.set /\ ~PolicyListsModule
  /\ io_last.err = "IO capability not enabled for this module"

\* the segments of a resource between its '/' characters
RECURSIVE Segments(_, _, _)
Segments(resource, i, current) ==
  IF i > Len(resource) THEN {current}
  ELSE IF resource[i] = "/" THEN {current} \cup Segments(resource, i + 1, <<>>)
  ELSE Segments(resource, i + 1, Append(current, resource[i]))

\* absolute, holding a ".." segment, or holding a backslash
UnsafeResource(resource) ==
  \/ (resource # <<>> /\ resource[1] = "/")
  \/ <<".", ".">> \in Segments(resource, 1, <<>>)
  \/ \E i \in 1..Len(resource) : resource[i] = "\\"

\* C17: readCsv rejects, before opening any file and without accruing any IO
\* budget, every resource that is an absolute path, contains a ".." segment or
\* contains a backslash; every file it opens is the resource resolved under
\* the policy's csv-assets directory, for a resource that passed the checks.
C17_UnsafePathsRejected ==
  /\ (io_last.err # "none" /\ UnsafeResource(io_last.resource)) =>
       /\ io_last.err \notin {"ok", "Failed to open CSV file"}
       /\ ~io_last.opened
       /\ njs_budget = io_last.budget_before
  /\ \A i \in 1..Len(h_opened) :
       /\ h_opened[i].dir = policy_.csv_assets_dir_
       /\ ~UnsafeResource(h_opened[i].resource)

\* a traversal refused after a file was opened under the assets directory
C17_Witness ==
  /\ js_ctx.io_enabled /\ h_opened # <<>>
  /\ io_last.err = "Path traversal not allowed"
  /\ <<".", ".">> \in Segments(io_last.resource, 1, <<>>)

\* the bytes of a file: each line and its newline
RECURSIVE FileBytes(_, _)
FileBytes(lines, i) ==
  IF i > Len(lines) THEN 0 ELSE lines[i] + 1 + FileBytes(lines, i + 1)

\* C18: over any sequence of readCsv calls within one invocation, io_bytes_read
\* and io_rows_read never exceed max_io_read_bytes and max_io_read_rows: a read
\* that would take either total over its limit aborts with IoBudgetExceeded
\* and returns no data, and with either limit at 0 every read fails.
C18_IoBudgetNeverExceeded ==
  /\ njs_budget.io_bytes_read <= njs_budget.max_io_read_bytes
  /\ njs_budget.io_rows_read <= njs_budget.max_io_read_rows
  /\ (io_last.opened /\ io_last.file.exists
        /\ \/ io_last.budget_before.io_bytes_read + FileBytes(io_last.file.lines, 1)
                > njs_budget.max_io_read_bytes
           \/ io_last.budget_before.io_rows_read + Len(io_last.file.lines) - 1
                > njs_budget.max_io_read_rows) =>
       /\ io_last.err \in {"IO budget exceeded: max_io_read_bytes",
                            "IO budget exceeded: max_io_read_rows"}
       /\ io_last.row_count = 0
  /\ (njs_budget.max_io_read_bytes = 0 \/ njs_budget.max_io_read_rows = 0) =>
       io_last.err # "ok"

\* the parts of C18 that hold: the row total, and reads under a zero limit
IoRowsNeverExceeded ==
  /\ njs_budget.io_rows_read <= njs_budget.max_io_read_rows
  /\ (njs_budget.max_io_read_bytes = 0 \/ njs_budget.max_io_read_rows = 0) =>
       (io_last.err # "ok" /\ h_opened = <<>>)

-----------------------------------------------------------------------------
(* Guest-module instruction limit: invocations of one runner, one after another *)

\* the number of Run calls made on the runner
MaxInvocations == 2

InitInterrupt ==
  /\ BBIdle /\ CIdle /\ EIdle /\ PIdle /\ TIdle /\ MIdle /\ KIdle /\ SFIdle
  /\ heap = SourceHeap({CAND_CANDIDATE_ID}, 1)
  /\ g_input = SourceBatch({CAND_CANDIDATE_ID}, 1)
  /\ allowed_writes_ \in {{}, {SCORE_ML}} /\ g_registry = TRUE
  /\ njs_budget = NjsBudget(1048576, 100000)
  /\ policy_ = NoPolicy /\ g_meta = NjsMeta("looper", "1.0", FALSE)
  /\ g_module = "looper.njs"
  /\ js_ctx = JsContext(FALSE, "", 0, 0, FALSE) /\ g_invocations = 0
  /\ io_last = NoRead /\ h_opened = <<>>
  /\ allocated_columns_ = <<>> /\ g_pc = "ready" /\ g_result = NoBatch
  /\ g_error = "" /\ g_calls = 0 /\ g_last = NoCall
  /\ h_accepted = [bytes |-> 0, cells |-> 0] /\ h_denied = {}

\* the interpreter polls the interrupt handler while guest code runs, be it
\* the module's top level (JS_Eval) or runBatch (JS_Call); at the cap the
\* guest is cancelled and Run throws
GuestTick ==
  /\ g_pc \in {"evaluating", "running"}
  /\ js_ctx' = JsInterruptHandler(js_ctx)
  /\ IF JsInterruptHandler(js_ctx).interrupted
       THEN /\ g_pc' = "threw"
            /\ g_error' = IF g_pc = "evaluating"
                            THEN "njs module evaluation failed"
                            ELSE "njs execution exceeded instruction limit"
       ELSE UNCHANGED <<g_pc, g_error>>
  /\ UNCHANGED <<heap, g_input, allowed_writes_, g_registry, njs_budget,
                 allocated_columns_, g_module, g_result, g_calls, g_last, h_accepted,
                 h_denied, policy_, g_meta, g_invocations, io_last, h_opened>>
  /\ UNCHANGED nonGVars

\* the caller runs the same runner again on the same input
NjsRunAgain ==
  /\ g_pc \in {"returned", "threw"} /\ g_invocations < MaxInvocations
  /\ g_pc' = "ready" /\ g_result' = NoBatch /\ g_error' = ""
  /\ g_calls' = 0 /\ g_last' = NoCall
  /\ h_accepted' = [bytes |-> 0, cells |-> 0] /\ h_denied' = {}
  /\ allocated_columns_' = <<>>
  /\ UNCHANGED <<heap, g_input, allowed_writes_, g_registry, njs_budget, g_module,
                 policy_, g_meta, js_ctx, g_invocations, io_last, h_opened>>
  /\ UNCHANGED nonGVars

NextInterrupt ==
  NjsRunBegin \/ ModuleEvaluated \/ GuestTick \/ GuestWriterCall \/ GuestReturn
    \/ NjsRunAgain

SpecInterrupt == InitInterrupt /\ [][NextInterrupt]_vars

\* Run is entered once called, and the interpreter keeps polling the handler
\* for as long as guest code runs
SpecInterruptLive ==
  SpecInterrupt /\ WF_vars(NjsRunBegin) /\ WF_vars(GuestTick)

\* an invocation in progress, and one that has ended
GuestRunning == g_pc \in {"ready", "evaluating", "running"}
GuestEnded == g_pc \in {"returned", "threw"}

\* a cancelled invocation fails with the instruction-limit error and returns
\* no batch
CancelledWithInstructionLimit ==
  (js_ctx.interrupted /\ GuestEnded) =>
    /\ g_pc = "threw"
    /\ g_error = "njs execution exceeded instruction limit"
    /\ g_result = NoBatch

\* guest code starts every invocation with the counter at 0
CounterRestarts ==
  [][(g_pc = "ready" /\ g_pc' = "evaluating") =>
       (js_ctx'.instruction_count = 0 /\ ~js_ctx'.interrupted)]_vars

\* C19: every guest invocation terminates: guest code that never returns is
\* cancelled once the instruction counter reaches its cap, the invocation
\* then fails with InstructionLimit and commits no column, and the counter
\* starts again from 0 in every invocation whatever the previous outcome.
C19_GuestCancelledAtInstructionLimit ==
  /\ GuestRunning ~> GuestEnded
  /\ [](js_ctx.instruction_count <= MAX_INSTRUCTIONS)
  /\ []CancelledWithInstructionLimit
  /\ CounterRestarts

\* the parts of C19 that hold: termination, the cap, no batch from a cancelled
\* invocation, and the restart of the counter
GuestAlwaysTerminates ==
  /\ GuestRunning ~> GuestEnded
  /\ [](js_ctx.instruction_count <= MAX_INSTRUCTIONS)
  /\ []((js_ctx.interrupted /\ GuestEnded) => (g_pc = "threw" /\ g_result = NoBatch))
  /\ CounterRestarts

-----------------------------------------------------------------------------
(* MergeNode::Run on batches with repeated and missing candidate-ids *)

\* rows of the batches handed to merge
MergeRows == MaxRows + 1

\* a cell of a column: a value, or missing
Cell(v) == [null |-> FALSE, v |-> v]
NullCell == [null |-> TRUE, v |-> 0]
MergeIds == {NullCell, Cell(1), Cell(2)}
MergeScores == {NullCell, Cell(0 - F32_SCALE), Cell(F32_SCALE \div 2)}

\* a column of the given type holding the cells
CellColumn(type, cells) ==
  [type |-> type, dim |-> 0,
   data |-> [i \in 1..Len(cells) |-> cells[i].v],
   null_mask |-> [i \in 1..Len(cells) |-> cells[i].null]]

\* the batches: a candidate-id column or none, a base-score column or none
MergeInputs ==
  UNION {
    {[n |-> n, has_ids |-> has_ids, ids |-> ids,
      has_scores |-> has_scores, scores |-> scores] :
       has_ids \in BOOLEAN, ids \in [1..n -> MergeIds],
       has_scores \in BOOLEAN, scores \in [1..n -> MergeScores]} : n \in 0..MergeRows}

MergeDedups ==
  MergeParams \cup {"dedup" :> JStr("first"), "dedup" :> JNum(1)}

InitMerge ==
  /\ BBIdle /\ CIdle /\ EIdle /\ GIdle /\ PIdle /\ TIdle /\ KIdle /\ SFIdle
  /\ \E in \in MergeInputs :
       LET id_col == IF in.has_ids THEN <<CellColumn("ColI64", in.ids)>> ELSE <<>>
           score_col == IF in.has_scores THEN <<CellColumn("ColF32", in.scores)>>
                        ELSE <<>>
       IN /\ in.has_ids \/ in.ids = [i \in 1..in.n |-> NullCell]
          /\ in.has_scores \/ in.scores = [i \in 1..in.n |-> NullCell]
          /\ heap = id_col \o score_col
          /\ m_input = MkBatch(in.n,
               [k \in (IF in.has_ids THEN {CAND_CANDIDATE_ID} ELSE {})
                        \cup (IF in.has_scores THEN {SCORE_BASE} ELSE {}) |->
                  IF k = CAND_CANDIDATE_ID THEN 1 ELSE Len(id_col) + 1])
  /\ m_params \in MergeDedups
  /\ m_pc = "ready" /\ m_result = Returned(<<>>, NoBatch)

\* MergeNode::Run
MergeRun ==
  /\ m_pc = "ready"
  /\ m_result' = MergeNode(heap, m_input, m_params)
  /\ heap' = MergeNode(heap, m_input, m_params).heap
  /\ m_pc' = IF MergeNode(heap, m_input, m_params).threw THEN "threw" ELSE "returned"
  /\ UNCHANGED <<m_input, m_params, bbVars, cVars, eVars, gVars, pVars, tVars, kVars, sfVars>>

NextMerge == MergeRun

SpecMerge == InitMerge /\ [][NextMerge]_vars

\* the input cell of a key at a row (rows from 0), and the output cell
InCell(key, row) == GetValue(heap[m_input.columns[key]], row)
OutCell(key, row) == GetValue(heap[m_result.batch.columns[key]], row)

\* the candidate-id and the base-score of an input row, NullValue if missing
IdOf(row) ==
  IF CAND_CANDIDATE_ID \in DOMAIN m_input.columns
    THEN InCell(CAND_CANDIDATE_ID, row) ELSE NullValue
BaseOf(row) ==
  IF SCORE_BASE \in DOMAIN m_input.columns THEN InCell(SCORE_BASE, row) ELSE NullValue

InRows == 0..(m_input.row_count - 1)
RowsOfId(id) == {q \in InRows : IdOf(q) = id}
Dedup == ParamString(m_params, "dedup", "first").value

\* the batch returned is the rows of kept, in increasing order, cell for cell
EmitsRows(kept) ==
  LET rows == SortedSeq(kept)
  IN /\ m_result.batch.row_count = Len(rows)
     /\ \A j \in 1..Len(rows) : \A key \in DOMAIN m_input.columns :
          /\ key \in DOMAIN m_result.batch.columns
          /\ OutCell(key, j - 1) = InCell(key, rows[j])

\* kept holds one row of every candidate-id and no row without one
OneRowPerId(kept) ==
  /\ \A r \in kept : ~IsNull(IdOf(r))
  /\ \A r, q \in kept : IdOf(r) = IdOf(q) => r = q
  /\ \A q \in InRows : ~IsNull(IdOf(q)) => \E r \in kept : IdOf(r) = IdOf(q)

\* the row kept for its id, as the claim has it: the earliest in mode
\* first; in mode max_base a row with a base-score no lower than any
\* base-score among the rows of its id
KeptAsClaimed(r) ==
  /\ Dedup = "first" => \A q \in RowsOfId(IdOf(r)) : r <= q
  /\ Dedup = "max_base" =>
       \A q \in RowsOfId(IdOf(r)) :
         ~IsNull(BaseOf(q)) => (~IsNull(BaseOf(r)) /\ BaseOf(r).v[1] >= BaseOf(q).v[1])

\* C20: merge keeps exactly one input row for every distinct non-null
\* candidate-id (the earliest row in mode first, a row whose base-score
\* is maximal among the rows of that id in mode max_base), drops every row
\* whose candidate-id is missing, and emits the kept rows in increasing order
\* of their input row index with each output cell equal to the kept row's
\* input cell.
C20_MergeKeepsOneRowPerId ==
  m_pc = "returned" =>
    \E kept \in SUBSET InRows :
      /\ EmitsRows(kept) /\ OneRowPerId(kept)
      /\ \A r \in kept : KeptAsClaimed(r)

\* the base-score merge compares: a missing one counts as 0
ComparedScore(row) == IF IsNull(BaseOf(row)) THEN 0 ELSE BaseOf(row).v[1]

\* what merge does keep: in mode max_base the earliest of the rows whose
\* compared score is maximal, in every other mode the earliest row
MergeKeepsEarliestMaximal ==
  m_pc = "returned" =>
    \E kept \in SUBSET InRows :
      /\ EmitsRows(kept) /\ OneRowPerId(kept)
      /\ \A r \in kept : \A q \in RowsOfId(IdOf(r)) :
           IF Dedup = "max_base"
             THEN \/ ComparedScore(r) > ComparedScore(q)
                  \/ (ComparedScore(r) = ComparedScore(q) /\ r <= q)
             ELSE r <= q

-----------------------------------------------------------------------------
(* ComputeComplexityMetrics called on acyclic plans *)

\* nodes of the enumerated plans
MetricNodes == MaxNodes + 1

Rankings(n) ==
  {f \in [1..n -> 1..n] : \A i, j \in 1..n : f[i] = f[j] => i = j}

\* the plan of n nodes listed n1..nn whose edges are E (pairs input, node);
\* with twice, every input list names its first input a second time
DagPlan(n, E, twice) ==
  Plan("dev",
       [i \in 1..n |->
          LET ins == SortedSeq({e[1] : e \in {d \in E : d[2] = i}})
              ids == [j \in 1..Len(ins) |-> IdNames[ins[j]]]
          IN PlanNode(IdNames[i], Op("core:", "features"),
                      IF twice /\ ids # <<>> THEN Append(ids, ids[1]) ELSE ids,
                      EmptyMap)])

\* one source feeding n nodes that all feed one sink
DiamondPlan(n) ==
  Plan("dev",
       [i \in 1..(n + 2) |->
          PlanNode(NodeName(i),
                   IF i = 1 THEN SOURCER_OP
                   ELSE IF i = n + 2 THEN Op("core:", "merge")
                   ELSE Op("core:", "features"),
                   IF i = 1 THEN <<>>
                   ELSE IF i = n + 2 THEN [j \in 1..n |-> NodeName(j + 1)]
                   ELSE <<NodeName(1)>>,
                   EmptyMap)])

\* every acyclic plan of up to MetricNodes nodes: the edges go up some
\* ranking of the nodes; and the chain, fan and diamond plans
MetricPlans ==
  UNION {
    UNION {
      {DagPlan(n, E, twice) :
         E \in SUBSET {e \in (1..n) \X (1..n) : rank[e[1]] < rank[e[2]]},
         twice \in BOOLEAN} : rank \in Rankings(n)} : n \in 0..MetricNodes}
  \cup {ChainPlan(n) : n \in PlanSizes}
  \cup {DiamondPlan(n) : n \in {2, WIDE + 2}}

InitMetrics ==
  /\ heap = <<>> /\ BBIdle /\ EIdle /\ GIdle /\ PIdle /\ TIdle /\ MIdle /\ KIdle /\ SFIdle
  /\ \E p \in MetricPlans :
       CompileReady(p, [budget |-> NoBudgetSet, enabled |-> TRUE])

\* metrics = ComputeComplexityMetrics(plan), called on its own
ComputeMetricsAction ==
  /\ c_pc = "ready"
  /\ compiled' = [compiled EXCEPT !.complexity = ComputeComplexityMetrics(plan)]
  /\ c_pc' = "measured"
  /\ UNCHANGED <<plan, budget_, complexity_check_enabled_, error, h_phases>>
  /\ UNCHANGED nonCVars

NextMetrics == ComputeMetricsAction

SpecMetrics == InitMetrics /\ [][NextMetrics]_vars

\* the edges of the plan, one for every place of every input list
InputPlaces(nodes) ==
  {pl \in (1..Len(nodes)) \X (1..EdgeCount(nodes, 1)) :
     pl[2] <= Len(nodes[pl[1]].inputs)}

OutDegreeOf(nodes, id) ==
  Cardinality({pl \in InputPlaces(nodes) : nodes[pl[1]].inputs[pl[2]] = id})

\* the number of nodes on a longest path ending at the node of that id
RECURSIVE NodesOnPathTo(_, _)
NodesOnPathTo(nodes, id) ==
  LET i == CHOOSE i \in 1..Len(nodes) : nodes[i].id = id
  IN 1 + SetMax({NodesOnPathTo(nodes, nodes[i].inputs[j]) :
                   j \in 1..Len(nodes[i].inputs)})

\* C21: for every acyclic plan ComputeComplexityMetrics returns node_count =
\* number of nodes, edge_count = sum of the lengths of the input lists,
\* fanout_peak and fanin_peak = the largest out-degree and in-degree,
\* max_depth = the number of nodes on a longest path, and longest_path is a
\* sequence of max_depth node ids in which each node is an input of the next.
C21_MetricsOfAcyclicPlan ==
  c_pc = "measured" =>
    LET nodes == plan.nodes
        metrics == compiled.complexity
        path == metrics.longest_path
    IN /\ metrics.node_count = Len(nodes)
       /\ metrics.edge_count = Cardinality(InputPlaces(nodes))
       /\ metrics.fanout_peak =
            SetMax({OutDegreeOf(nodes, nodes[i].id) : i \in 1..Len(nodes)})
       /\ metrics.fanin_peak = SetMax({Len(nodes[i].inputs) : i \in 1..Len(nodes)})
       /\ metrics.max_depth =
            SetMax({NodesOnPathTo(nodes, nodes[i].id) : i \in 1..Len(nodes)})
       /\ Len(path) = metrics.max_depth
       /\ \A k \in 1..Len(path) : path[k] \in NodeIds(nodes)
       /\ \A k \in 1..(Len(path) - 1) :
            \E i \in 1..Len(nodes) :
              /\ nodes[i].id = path[k + 1]
              /\ \E j \in 1..Len(nodes[i].inputs) : nodes[i].inputs[j] = path[k]

\* a measured diamond: a path of three nodes, two of them reached by two routes
C21_Witness ==
  /\ c_pc = "measured" /\ Len(plan.nodes) = MaxNodes + 1
  /\ compiled.complexity.max_depth = 3 /\ compiled.complexity.fanin_peak = 2
  /\ compiled.complexity.fanout_peak = 2 /\ compiled.complexity.edge_count = 4

\* the fan-out plan of the reference scenario
C21_WitnessWide ==
  /\ c_pc = "measured"
  /\ compiled.complexity.node_count = WIDE + 4
  /\ compiled.complexity.edge_count = 2 * (WIDE + 2)
  /\ compiled.complexity.max_depth = 3
  /\ compiled.complexity.fanout_peak = WIDE + 2 /\ compiled.complexity.fanin_peak = WIDE + 2

-----------------------------------------------------------------------------
(* Trace records of Execute *)

\* the records of the k-th operator Execute started
StartOf(k) == 2 * k - 1
EndOf(k) == 2 * k

\* the k-th started operator has its node_start record
HasStartRecord(k) ==
  /\ StartOf(k) <= Len(trace_log)
  /\ trace_log[StartOf(k)].event = "node_start"
  /\ trace_log[StartOf(k)].node_id = h_runs[k].node

\* and its node_end record right after it
HasEndRecord(k) ==
  /\ EndOf(k) <= Len(trace_log)
  /\ trace_log[EndOf(k)].event = "node_end"
  /\ trace_log[EndOf(k)].node_id = h_runs[k].node

\* C22: with tracing enabled, for every node whose operator Execute starts
\* there is exactly one node_start record followed by exactly one node_end
\* record for the same node, emitted before the next node's node_start; when
\* the operator fails, the node_end record is still emitted and carries the
\* error string.
C22_EveryStartedNodeTraced ==
  (enabled_ /\ e_pc \in {"running", "returned", "threw"}) =>
    /\ Len(trace_log) = 2 * Len(h_runs)
    /\ \A k \in 1..Len(h_runs) : HasStartRecord(k) /\ HasEndRecord(k)
    /\ e_pc = "threw" => trace_log[Len(trace_log)].error = e_exception

\* every operator that returned is traced by a start and an end record in
\* order; the operator that threw has a start record only
CompletedNodesTraced ==
  (enabled_ /\ e_pc \in {"running", "returned", "threw"}) =>
    /\ Len(trace_log) = 2 * Len(h_runs) - (IF e_pc = "threw" THEN 1 ELSE 0)
    /\ \A k \in 1..Len(h_runs) :
         /\ HasStartRecord(k)
         /\ (k < Len(h_runs) \/ e_pc # "threw") => HasEndRecord(k)

-----------------------------------------------------------------------------
(* Operators and their input: the built-in operators under Execute, and a
   guest module under NjsRunner::Run *)

InitOperators == InitExec \/ InitGuest

NextOperators == NextExec \/ NextGuest

SpecOperators == InitOperators /\ [][NextOperators]_vars

\* the columns a batch holds, as handles
HandlesOf(batch) == {batch.columns[key] : key \in DOMAIN batch.columns}

\* the batches an operator can be given: every stored node output, and the
\* batch the guest module runs on
InputBatches == {outputs[id] : id \in DOMAIN outputs} \cup {g_input}

\* C23: no operator run (sourcer, features, model, score_formula, merge or a
\* guest module), whether it succeeds or fails, changes the row count, the
\* key set, any column handle or any cell of its input batch, and a batch
\* stored as the output of an earlier node is never changed by a later node.
C23_OperatorsNeverMutateInput ==
  [][/\ \A id \in DOMAIN outputs : id \in DOMAIN outputs' /\ outputs'[id] = outputs[id]
     /\ g_input' = g_input
     /\ \A batch \in InputBatches : \A h \in HandlesOf(batch) :
          h <= Len(heap') /\ heap'[h] = heap[h]]_vars

\* a node that has run on the non-empty output of an earlier node and
\* replaced one of its keys
C23_Witness ==
  /\ e_pc = "returned" /\ Len(h_runs) >= 2
  /\ \E k \in 2..Len(h_runs) :
       /\ h_runs[k].input.row_count > 0
       /\ \E key \in DOMAIN h_runs[k].input.columns :
            /\ key \in DOMAIN e_result.columns
            /\ e_result.columns[key] # h_runs[k].input.columns[key]

\* a guest module that has returned columns of its own on a non-empty input
C23_WitnessGuest ==
  /\ g_pc = "returned" /\ g_input.row_count > 0
  /\ DOMAIN g_result.columns # DOMAIN g_input.columns

-----------------------------------------------------------------------------
(* BatchBuilder: row counts of the built columns *)

\* the column the built batch holds for a key
BuiltColumn(key_id) == heap[built.columns[key_id]]

\* C24: every batch returned by BatchBuilder.Build, after any sequence of set
\* and add-column calls, satisfies column length >= batch row count for each
\* of its columns; add-column with a column whose row count does not match
\* the builder's N is not accepted.
C24_BuiltColumnsCoverRows ==
  bb_pc = "built" =>
    \A key_id \in DOMAIN built.columns : Size(BuiltColumn(key_id)) >= built.row_count

\* the columns Build takes from the source, and the scalar columns Set made
\* or cloned, do cover the rows
BuiltScalarColumnsCoverRows ==
  bb_pc = "built" =>
    \A key_id \in DOMAIN built.columns \ h_added :
      BuiltColumn(key_id).type # "ColF32Vec" =>
        Size(BuiltColumn(key_id)) >= built.row_count

-----------------------------------------------------------------------------
(* KeyRegistry::LoadFromJson and the lookups (keys/registry.cpp) *)

\* entries of the "keys" array of a registry document
MaxKeys == 2

\* ParseKeyType: the KeyType, or "none" for std::nullopt
ParseKeyType(s) ==
  CASE s = "bool" -> "Bool" [] s = "i64" -> "I64" [] s = "f32" -> "F32"
    [] s = "string" -> "String" [] s = "bytes" -> "Bytes" [] s = "f32vec" -> "F32Vec"
    [] OTHER -> "none"

\* the loop of LoadFromJson over json["keys"] from entry i on: every entry is
\* pushed and both indexes are pointed at it; an unknown type ends the load
RECURSIVE LoadKeys(_, _, _)
LoadKeys(keys, i, reg) ==
  IF i > Len(keys) THEN [ok |-> TRUE, error |-> "", reg |-> reg]
  ELSE IF ParseKeyType(keys[i].type) = "none"
    THEN [ok |-> FALSE, error |-> "Unknown key type", reg |-> reg]
  ELSE LET info == [id |-> keys[i].id, name |-> keys[i].name,
                    type |-> ParseKeyType(keys[i].type)]
           index == Len(reg.keys_) + 1
       IN LoadKeys(keys, i + 1,
                   [keys_ |-> Append(reg.keys_, info),
                    by_id_ |-> Update(reg.by_id_, info.id, index),
                    by_name_ |-> Update(reg.by_name_, info.name, index)])

\* KeyRegistry::LoadFromJson: a text that does not parse throws before the
\* registry is cleared
LoadFromJson(json, reg) ==
  IF ~json.valid THEN [ok |-> FALSE, error |-> "JSON parse error", reg |-> reg]
  ELSE LoadKeys(json.keys, 1, EmptyRegistry)

\* KeyRegistry::GetById / GetByName on a loaded registry: the entry, or "none"
\* for nullptr
RegistryGetById(reg, id) ==
  IF id \in DOMAIN reg.by_id_ THEN reg.keys_[reg.by_id_[id]] ELSE "none"
RegistryGetByName(reg, name) ==
  IF name \in DOMAIN reg.by_name_ THEN reg.keys_[reg.by_name_[name]] ELSE "none"

KeyEntries ==
  [id : {CAND_CANDIDATE_ID, SCORE_BASE}, name : {"cand.candidate_id", "score.base"},
   type : {"i64", "f32", "float"}]

RegistryJsons ==
  {[valid |-> FALSE, keys |-> <<>>]}
    \cup UNION {{[valid |-> TRUE, keys |-> ks] : ks \in [1..n -> KeyEntries]} :
                  n \in 0..MaxKeys}

InitKeys ==
  /\ heap = <<>> /\ BBIdle /\ CIdle /\ EIdle /\ GIdle /\ PIdle /\ TIdle /\ MIdle
  /\ SFIdle
  /\ registry_json \in RegistryJsons
  /\ key_registry = EmptyRegistry /\ k_pc = "json" /\ k_error = ""

\* registry.LoadFromJson(json_str, &error)
LoadFromJsonAction ==
  /\ k_pc = "json"
  /\ LET r == LoadFromJson(registry_json, key_registry)
     IN /\ key_registry' = r.reg
        /\ k_error' = r.error
        /\ k_pc' = IF r.ok THEN "loaded" ELSE "failed"
  /\ UNCHANGED <<registry_json, heap, bbVars, cVars, eVars, gVars, pVars, tVars, mVars,
               sfVars>>

NextKeys == LoadFromJsonAction

SpecKeys == InitKeys /\ [][NextKeys]_vars

\* the document names an id or a name twice
RepeatsKey(keys) ==
  \E i, j \in 1..Len(keys) :
    i # j /\ (keys[i].id = keys[j].id \/ keys[i].name = keys[j].name)

\* C25: after every successful load of the key registry, no two loaded keys
\* share an id and no two share a name, and GetById(id) and GetByName(name)
\* return the same single entry for each loaded key; a registry file that
\* repeats an id or a name is rejected instead of loaded.
C25_LoadedKeysUnique ==
  /\ k_pc = "loaded" =>
       /\ ~RepeatsKey(key_registry.keys_)
       /\ \A i \in 1..Len(key_registry.keys_) :
            /\ RegistryGetById(key_registry, key_registry.keys_[i].id)
                 = key_registry.keys_[i]
            /\ RegistryGetByName(key_registry, key_registry.keys_[i].name)
                 = key_registry.keys_[i]
  /\ (k_pc \in {"loaded", "failed"} /\ registry_json.valid
        /\ RepeatsKey(registry_json.keys)) => k_pc = "failed"

\* what a load gives: every entry of the document in order, each lookup
\* answering with the last entry of that id or name; a document without
\* repeats satisfies the uniqueness the claim states
LookupsReturnLastEntry ==
  k_pc = "loaded" =>
    LET ks == key_registry.keys_
    IN /\ Len(ks) = Len(registry_json.keys)
       /\ \A i \in 1..Len(ks) :
            /\ ks[i].id = registry_json.keys[i].id
            /\ ks[i].name = registry_json.keys[i].name
            /\ \E j \in i..Len(ks) :
                 /\ ks[j].id = ks[i].id /\ RegistryGetById(key_registry, ks[i].id) = ks[j]
                 /\ \A l \in (j + 1)..Len(ks) : ks[l].id # ks[i].id
            /\ \E j \in i..Len(ks) :
                 /\ ks[j].name = ks[i].name
                 /\ RegistryGetByName(key_registry, ks[i].name) = ks[j]
                 /\ \A l \in (j + 1)..Len(ks) : ks[l].name # ks[i].name

-----------------------------------------------------------------------------
(* BatchBuilder: the first write to a key the source lacks *)

\* Set(row_index, key_id, value, registry) is the first touch of a key absent
\* from the source, with a row inside the batch and a non-null value that has
\* the key's declared type when a registry is given
FirstWriteOfAbsentKey(row_index, key_id, value, registry) ==
  /\ key_id \notin SourceKeys /\ key_id \notin modified_keys_
  /\ row_index < row_count_ /\ ~IsNull(value)
  /\ registry =>
       /\ GetById(key_id) # "none"
       /\ InferColumnType(value) = KeyTypeToColumnType(GetById(key_id))

\* the column the builder holds for key_id after the step has row_count_ rows,
\* value at row_index and null at every other row
HoldsOnlyValueAt(row_index, key_id, value) ==
  /\ key_id \in DOMAIN modified_columns_'
  /\ LET col == heap'[modified_columns_'[key_id]]
     IN /\ Size(col) = row_count_
        /\ \A r \in 0..(row_count_ - 1) :
             GetValue(col, r) = IF r = row_index THEN value ELSE NullValue

\* C26: for a key K absent from the source, BatchBuilder.Set(row, K, v) with
\* row < N and a non-null v of any of the six value types (v of K's declared
\* type when a registry is given) succeeds, and the column Build then returns
\* for K has N rows with v at that row and null at every other row.
C26_FirstWriteMakesNullFilledColumn ==
  [][\A row_index \in 0..MaxRows, key_id \in BuilderKeys, value \in SetValues,
        registry \in BOOLEAN :
       (/\ FirstWriteOfAbsentKey(row_index, key_id, value, registry)
        /\ Set(row_index, key_id, value, registry))
         => (bb_last' = "ok" /\ HoldsOnlyValueAt(row_index, key_id, value))]_vars

\* the same for every value but a vector of floats
ScalarFirstWriteMakesNullFilledColumn ==
  [][\A row_index \in 0..MaxRows, key_id \in BuilderKeys, value \in SetValues,
        registry \in BOOLEAN :
       (/\ FirstWriteOfAbsentKey(row_index, key_id, value, registry)
        /\ value.t # "vector<float>"
        /\ Set(row_index, key_id, value, registry))
         => (bb_last' = "ok" /\ HoldsOnlyValueAt(row_index, key_id, value))]_vars

-----------------------------------------------------------------------------
(* ScoreFormulaNode::Run on batches with null, i64, f32 and string cells *)

\* the batches: a candidate-id column (i64), a base-score column (f32) or
\* none, a node-timings column (string) holding a text in every row; no batch
\* has a freshness column
FormulaIds == {NullCell, Cell(2)}
FormulaScores == {NullCell, Cell(0 - F32_SCALE), Cell(F32_SCALE \div 2)}

FormulaInputs ==
  UNION {
    {[n |-> n, ids |-> ids, has_scores |-> has_scores, scores |-> scores] :
       ids \in [1..n -> FormulaIds], has_scores \in BOOLEAN,
       scores \in [1..n -> FormulaScores]} : n \in {0, MaxRows}}

\* the expr parameter: leaves, folds, and objects ParseExpr cannot parse (an
\* op it does not know, a value field that is a string) at depth 0 and 1
FormulaExprs ==
  {JExpr("signal", k) :
     k \in {SCORE_BASE, CAND_CANDIDATE_ID, DEBUG_NODE_TIMINGS, FEAT_FRESHNESS}}
    \cup {JExpr("const", F32_SCALE \div 2),
          JOp("add", <<JExpr("signal", SCORE_BASE), JExpr("const", F32_SCALE \div 2)>>),
          JOp("max", <<JExpr("signal", SCORE_BASE), JExpr("signal", CAND_CANDIDATE_ID)>>),
          JOp("min", <<>>),
          JExpr("sigmoid", 0),
          JExprText("const"),
          JOp("add", <<JExpr("signal", SCORE_BASE), JExpr("sigmoid", 0)>>)}

FormulaParams ==
  {EmptyMap, "output_key_id" :> JStr("x")}
    \cup {"expr" :> e : e \in FormulaExprs}
    \cup {("output_key_id" :> JNum(SCORE_BASE)) @@ ("expr" :> JExpr("signal", SCORE_BASE))}

InitScoreFormula ==
  /\ BBIdle /\ CIdle /\ EIdle /\ GIdle /\ PIdle /\ TIdle /\ MIdle /\ KIdle
  /\ \E in \in FormulaInputs :
       /\ in.has_scores \/ in.scores = [i \in 1..in.n |-> NullCell]
       /\ heap = <<CellColumn("ColI64", in.ids),
                   FilledColumn("ColString", 0, [i \in 1..in.n |-> 7], in.n)>>
                   \o (IF in.has_scores THEN <<CellColumn("ColF32", in.scores)>>
                       ELSE <<>>)
       /\ sf_input = MkBatch(in.n,
            [k \in {CAND_CANDIDATE_ID, DEBUG_NODE_TIMINGS}
                     \cup (IF in.has_scores THEN {SCORE_BASE} ELSE {}) |->
               IF k = CAND_CANDIDATE_ID THEN 1
               ELSE IF k = DEBUG_NODE_TIMINGS THEN 2 ELSE 3])
  /\ sf_params \in FormulaParams
  /\ sf_pc = "ready" /\ sf_result = Returned(<<>>, NoBatch)

\* ScoreFormulaNode::Run
ScoreFormulaRun ==
  /\ sf_pc = "ready"
  /\ sf_result' = ScoreFormulaNode(heap, sf_input, sf_params)
  /\ heap' = ScoreFormulaNode(heap, sf_input, sf_params).heap
  /\ sf_pc' = IF ScoreFormulaNode(heap, sf_input, sf_params).threw THEN "threw"
              ELSE "returned"
  /\ UNCHANGED <<sf_input, sf_params, bbVars, cVars, eVars, gVars, pVars, tVars,
                 mVars, kVars>>

NextScoreFormula == ScoreFormulaRun

SpecScoreFormula == InitScoreFormula /\ [][NextScoreFormula]_vars

\* the node ran to its end on a non-empty batch with expr = Signal(key_id)
EvaluatedSignal(key_id) ==
  /\ sf_pc = "returned" /\ sf_input.row_count > 0
  /\ "expr" \in DOMAIN sf_params /\ sf_params["expr"] = JExpr("signal", key_id)

\* the key the node wrote its result to
OutputKey ==
  IF "output_key_id" \in DOMAIN sf_params THEN sf_params["output_key_id"].v[1]
  ELSE SCORE_FINAL

\* the value the node computed for row_index
Computed(row_index) ==
  GetValue(heap[sf_result.batch.columns[OutputKey]], row_index)

\* the cell of the input at (row_index, key_id), read off the column itself
InputHasCell(row_index, key_id) ==
  /\ key_id \in DOMAIN sf_input.columns
  /\ ~heap[sf_input.columns[key_id]].null_mask[row_index + 1]
InputCellType(key_id) == heap[sf_input.columns[key_id]].type
InputCellData(row_index, key_id) == heap[sf_input.columns[key_id]].data[row_index + 1]

\* C27: evaluating Signal(k) at row i of a batch yields the cell itself when it
\* is an f32, the cell converted to f32 when it is an i64, and 0 when the cell
\* is null, has any other type, or the batch has no column for k.
C27_SignalCoercion ==
  \A key_id \in {SCORE_BASE, CAND_CANDIDATE_ID, DEBUG_NODE_TIMINGS, FEAT_FRESHNESS} :
    EvaluatedSignal(key_id) =>
      \A row_index \in 0..(sf_input.row_count - 1) :
        /\ Computed(row_index).t = "float"
        /\ Computed(row_index).v[1] =
             IF ~InputHasCell(row_index, key_id) THEN 0
             ELSE IF InputCellType(key_id) = "ColF32"
               THEN InputCellData(row_index, key_id)
             ELSE IF InputCellType(key_id) = "ColI64"
               THEN InputCellData(row_index, key_id) * F32_SCALE
             ELSE 0

\* Signal of the i64 column was evaluated on a batch with a null id in one row
\* and an id in another
C27_Witness ==
  /\ EvaluatedSignal(CAND_CANDIDATE_ID)
  /\ \E r1, r2 \in 0..(sf_input.row_count - 1) :
       /\ ~InputHasCell(r1, CAND_CANDIDATE_ID) /\ Computed(r1).v[1] = 0
       /\ InputHasCell(r2, CAND_CANDIDATE_ID) /\ Computed(r2).v[1] = 2 * F32_SCALE

\* Signal was evaluated on an f32 cell, on a string cell, and on a missing column
C27_WitnessF32 ==
  /\ EvaluatedSignal(SCORE_BASE)
  /\ InputHasCell(0, SCORE_BASE) /\ Computed(0).v[1] = 0 - F32_SCALE
C27_WitnessString ==
  EvaluatedSignal(DEBUG_NODE_TIMINGS) /\ InputHasCell(0, DEBUG_NODE_TIMINGS)
C27_WitnessMissing ==
  EvaluatedSignal(FEAT_FRESHNESS) /\ FEAT_FRESHNESS \notin DOMAIN sf_input.columns

\* the ops ParseExpr knows
KnownOps == {"const", "signal", "add", "mul", "min", "max", "cos", "clamp", "penalty"}

\* the expression object cannot be parsed: an unknown op or a field of the
\* wrong type, at any depth
RECURSIVE CannotBeParsed(_)
CannotBeParsed(json) ==
  \/ json.s \notin KnownOps
  \/ json.vt # "number"
  \/ \E i \in 1..Len(json.args) : CannotBeParsed(json.args[i])

\* C28: a score_formula node whose expr parameter cannot be parsed (an unknown
\* op or a missing field at any depth of the expression) fails the node with an
\* error; it never returns an output batch whose output column was computed
\* from a substituted constant.
C28_UnparsableExprFailsNode ==
  (/\ sf_pc \in {"returned", "threw"}
   /\ "expr" \in DOMAIN sf_params /\ CannotBeParsed(sf_params["expr"]))
    => (sf_pc = "threw" /\ sf_result.batch = NoBatch)

\* what the node does with it: the unparsable object counts as the constant 0
UnparsableExprScoredAsZero ==
  (/\ sf_pc \in {"returned", "threw"} /\ sf_input.row_count > 0
   /\ "expr" \in DOMAIN sf_params /\ CannotBeParsed(sf_params["expr"]))
    => /\ sf_pc = "returned"
       /\ \A row_index \in 0..(sf_input.row_count - 1) :
            Computed(row_index).v[1] =
              IF sf_params["expr"].args = <<>> THEN 0
              ELSE IF InputHasCell(row_index, SCORE_BASE)
                THEN InputCellData(row_index, SCORE_BASE) ELSE 0

-----------------------------------------------------------------------------
(* BatchBuilder: what a failed Set leaves behind *)

\* the keys some successful Set or AddColumn call touched
TouchedWithSuccess == {kr[1] : kr \in DOMAIN h_written} \cup h_added

\* C29: a BatchBuilder.Set call that fails (row out of range, key unknown to
\* the registry, type mismatch or dimension mismatch) leaves the builder as it
\* was before the call: the key is not marked modified, and a following Build
\* still returns the source's own handle for a key that no successful call
\* touched.
C29_FailedSetLeavesBuilder ==
  /\ [][\A row_index \in 0..MaxRows, key_id \in BuilderKeys, value \in SetValues,
           registry \in BOOLEAN :
          (Set(row_index, key_id, value, registry) /\ bb_last' # "ok")
            => UNCHANGED <<modified_keys_, modified_columns_>>]_vars
  /\ [](bb_pc = "built" =>
          \A k \in SourceKeys \ TouchedWithSuccess :
            k \in DOMAIN built.columns /\ built.columns[k] = source_.columns[k])

\* a Set refused before EnsureWritable (row out of range, key unknown to the
\* registry, value not of the registry's type) leaves the builder as it was
RefusedSetLeavesBuilder ==
  [][\A row_index \in 0..MaxRows, key_id \in BuilderKeys, value \in SetValues,
        registry \in BOOLEAN :
       (/\ Set(row_index, key_id, value, registry)
        /\ SetPrecheck(row_count_, row_index, key_id, value, registry).err # "ok")
         => (bb_last' # "ok" /\ UNCHANGED <<heap, modified_keys_, modified_columns_>>)]_vars

-----------------------------------------------------------------------------
(* BatchBuilder: null writes under a registry *)

\* the only call so far was Set(row, key_id, null) on a key the source lacks
FirstTouchedWithNull(key_id) ==
  /\ bb_pc = "open" /\ bb_calls = 1 /\ bb_last = "ok"
  /\ key_id \notin SourceKeys /\ key_id \notin h_added
  /\ modified_keys_ = {key_id}
  /\ \E row_index \in 0..(row_count_ - 1) :
       /\ <<key_id, row_index>> \in DOMAIN h_written
       /\ h_written[<<key_id, row_index>>] = NullValue

\* Set(row_index, key_id, null, registry) is the first touch of a key absent
\* from the source
NullFirstTouch(row_index, key_id) ==
  /\ key_id \notin SourceKeys /\ key_id \notin modified_keys_
  /\ row_index < row_count_
  /\ Set(row_index, key_id, NullValue, TRUE)

\* C30: with a registry, the column a BatchBuilder creates on the first touch
\* of a key K absent from the source has K's declared type whatever value is
\* written first: after Set(row, K, null) as the first touch, a later
\* Set(row2, K, v) with v of K's declared type succeeds, and a null write for a
\* key-id unknown to the registry is rejected like any other write to an
\* unknown key.
C30_NullWritesFollowRegistry ==
  [][\A row_index \in 0..MaxRows, key_id \in BuilderKeys :
       /\ (NullFirstTouch(row_index, key_id) /\ GetById(key_id) # "none")
            => /\ bb_last' = "ok"
               /\ heap'[modified_columns_'[key_id]].type
                    = KeyTypeToColumnType(GetById(key_id))
       /\ (NullFirstTouch(row_index, key_id) /\ GetById(key_id) = "none")
            => (bb_last' = "UnknownKey" /\ UNCHANGED modified_keys_)
       /\ \A value \in SetValues :
            (/\ FirstTouchedWithNull(key_id) /\ GetById(key_id) # "none"
             /\ row_index < row_count_ /\ ~IsNull(value)
             /\ InferColumnType(value) = KeyTypeToColumnType(GetById(key_id))
             /\ Set(row_index, key_id, value, TRUE))
              => bb_last' = "ok"]_vars

\* what the builder does: a null first touch makes an f32 column for any key,
\* known to the registry or not
NullFirstTouchMakesF32Column ==
  [][\A row_index \in 0..MaxRows, key_id \in BuilderKeys :
       NullFirstTouch(row_index, key_id)
         => /\ bb_last' = "ok" /\ key_id \in modified_keys_'
            /\ heap'[modified_columns_'[key_id]].type = "ColF32"]_vars

====
